---- MODULE Spec2Model ----
(***************************************************************************)
(* pydantic-faker: schema-driven synthesis of fake instances               *)
(* (src/src/pydantic_faker/core.py).                                       *)
(*                                                                         *)
(* Conventions of the model                                                *)
(*  - Python's None is the empty tuple <<>>, a present value x is <<x>>.   *)
(*  - A generated value is a record [t, n, id, txt, items]: t names the    *)
(*    branch of the synthesizer that produced it, n is its number (an int, *)
(*    a float in millionths, a bool as 0/1, a length, a timestamp), id     *)
(*    identifies random text, txt is a literal text, items holds list      *)
(*    items or the [k, val] entries of a dict / nested instance.           *)
(*  - A type expression is a record [k, name, args, vals, fields].         *)
(*  - The two pseudo-random sources (the `random` module and Faker's       *)
(*    generators) are deterministic streams over RndStates: a draw reads   *)
(*    the state, then the state advances.                                  *)
(***************************************************************************)
EXTENDS Integers, Sequences, FiniteSets, TLC

VARIABLES
    rnd,          \* state of the module-level `random` generator
    fakerShared,  \* state of the generator shared by all Faker instances
    clock,        \* wall clock, in seconds
    model_class,  \* the schema handed to generate_fake_data_for_model / create_fastapi_app
    last,         \* the latest completed top-level call, None before the first
    prev,         \* the call completed before it, None before the second
    store,        \* IN_MEMORY_DATA[resource_name]: the items of the served resource
    reply,        \* the latest answered request and its response, None before the server runs
    faker_instance_for_new_items,  \* the generator of the server's Faker instance, None before the server runs
    inflight,     \* the requests the server has accepted and whose handler has not run yet
    fake_data_list  \* the instances the generate command has collected, cli.py 83

vars == <<rnd, fakerShared, clock, model_class, last, prev, store, reply, faker_instance_for_new_items,
          inflight, fake_data_list>>

-----------------------------------------------------------------------------
(* Bounds of the model *)

RndMod == 8
MaxClock == 1
MaxCatLen == 3
MaxItems == 2
MaxId == 3
MaxDrawn == 3
MaxInFlight == 2

-----------------------------------------------------------------------------
(* Python values *)

None == <<>>
Some(x) == <<x>>

Max(a, b) == IF a >= b THEN a ELSE b
Min(a, b) == IF a <= b THEN a ELSE b
Abs(a) == IF a < 0 THEN 0 - a ELSE a

V(t, n, id, txt, items) == [t |-> t, n |-> n, id |-> id, txt |-> txt, items |-> items]
NoneV == V("none", 0, 0, "", <<>>)
IntV(n) == V("int", n, 0, "", <<>>)
FloatV(n) == V("float", n, 0, "", <<>>)
BoolV(b) == V("bool", b, 0, "", <<>>)
StrV(len, id) == V("str", len, id, "", <<>>)
TextV(txt) == V("str", 0, 0, txt, <<>>)
ListV(items) == V("list", Len(items), 0, "", items)
DictV(entries) == V("dict", Len(entries), 0, "", entries)
ModelV(entries) == V("model", Len(entries), 0, "", entries)
Entry(k, val) == [k |-> k, val |-> val]

Keys(entries) == [i \in 1 .. Len(entries) |-> entries[i].k]

-----------------------------------------------------------------------------
(* Type expressions and field descriptors *)

T(k, name, args, vals, fields) ==
    [k |-> k, name |-> name, args |-> args, vals |-> vals, fields |-> fields]
Scalar(k) == T(k, k, <<>>, <<>>, <<>>)
IntT == Scalar("int")
FloatT == Scalar("float")
StrT == Scalar("str")
BoolT == Scalar("bool")
UuidT == Scalar("uuid")
DatetimeT == Scalar("datetime")
DateT == Scalar("date")
TimeT == Scalar("time")
AnyT == T("Any", "typing.Any", <<>>, <<>>, <<>>)
NoneT == T("NoneType", "<class 'NoneType'>", <<>>, <<>>, <<>>)
OtherT(name) == T("other", name, <<>>, <<>>, <<>>)
UnionT(args) == T("union", "union", args, <<>>, <<>>)
ListT(args) == T("list", "list", args, <<>>, <<>>)
DictT(args) == T("dict", "dict", args, <<>>, <<>>)
LiteralT(vals) == T("literal", "typing.Literal", <<>>, [i \in 1 .. Len(vals) |-> Entry("", vals[i])], <<>>)
EnumT(name, members) == T("enum", name, <<>>, members, <<>>)
ModelT(name, fields) == T("model", name, <<>>, <<>>, fields)

NoCons ==
    [gt |-> None, ge |-> None, lt |-> None, le |-> None, multiple_of |-> None,
     min_length |-> None, max_length |-> None]

\* A FieldInfo as pydantic builds it from Field(...): the constraints are kept
\* in `metadata`; the object has no attribute of their names, so getattr
\* yields its default (`attrs` holds None everywhere); `examples` is an attribute.
\* A field declared without a default is required in a request payload.
Field(name, annotation, metadata, examples) ==
    [name |-> name, annotation |-> annotation, attrs |-> NoCons,
     metadata |-> metadata, examples |-> examples, required |-> TRUE]
Plain(name, annotation) == Field(name, annotation, NoCons, <<>>)
\* name: annotation = None
Defaulted(name, annotation) == [Plain(name, annotation) EXCEPT !.required = FALSE]

-----------------------------------------------------------------------------
(* The pseudo-random sources *)

RndStates == 0 .. RndMod - 1

\* random.seed(n) / Random.seed(n): the state is a function of the seed alone
SeedState(n) == n % RndMod

Advance(s) == (s + 1) % RndMod

\* floor(s * n / RndMod), computed without overflow; the last state yields n-1,
\* so both ends of a range are drawn
RandBelow(s, n) ==
    IF s = RndMod - 1
    THEN n - 1
    ELSE (n \div RndMod) * s + ((n % RndMod) * s) \div RndMod

\* random.random() < p/q
RandomLess(s, p, q) == s * q < p * RndMod

\* random.randint(lo, hi); raises ValueError on an empty range
RandIntRaises(lo, hi) == lo > hi
RandInt(s, lo, hi) == lo + RandBelow(s, hi - lo + 1)

\* random.choice(seq)
Choice(s, seq) == seq[RandBelow(s, Len(seq)) + 1]

\* random.uniform(a, b) == a + (b - a) * random()
Uniform(s, a, b) == a + ((b - a) \div RndMod) * s

\* The generator state threaded through one top-level call:
\* rnd is the `random` module, shared Faker's shared generator, inst the
\* Faker instance's own generator (None until seed_instance), loc its locale,
\* now the wall clock read by Faker's date providers
GenState(r, shared, inst, loc, now) ==
    [rnd |-> r, shared |-> shared, inst |-> inst, loc |-> loc, now |-> now]

RndStep(st) == [st EXCEPT !.rnd = Advance(st.rnd)]

FakerRaw(st) == IF st.inst = None THEN st.shared ELSE st.inst[1]
FakerStep(st) ==
    IF st.inst = None
    THEN [st EXCEPT !.shared = Advance(st.shared)]
    ELSE [st EXCEPT !.inst = Some(Advance(st.inst[1]))]

Res(val, st) == [val |-> val, st |-> st]

-----------------------------------------------------------------------------
(* Constraint extraction, core.py 327-352 *)

Override(attr, meta) == IF meta # None THEN meta ELSE attr

\* field_info is None (list items, dict values, union alternatives) or
\* Some(field): getattr on the FieldInfo first, then every metadata object
\* that carries the constraint overrides it
ExtractConstraints(field_info) ==
    IF field_info = None
    THEN NoCons
    ELSE LET a == field_info[1].attrs
             m == field_info[1].metadata
         IN  [gt |-> Override(a.gt, m.gt),
              ge |-> Override(a.ge, m.ge),
              lt |-> Override(a.lt, m.lt),
              le |-> Override(a.le, m.le),
              multiple_of |-> Override(a.multiple_of, m.multiple_of),
              min_length |-> Override(a.min_length, m.min_length),
              max_length |-> Override(a.max_length, m.max_length)]

-----------------------------------------------------------------------------
(* int, core.py 354-390 *)

min_val_default == 0
max_val_default == 1000

\* a bug: gt taken as an inclusive bound
IntMin_GtInclusive(c) ==
    LET min0 == IF c.ge # None THEN Max(min_val_default, c.ge[1]) ELSE min_val_default
    IN  IF c.gt # None THEN Max(min0, c.gt[1]) ELSE min0

IntMin(c) ==
    LET min0 == IF c.ge # None THEN Max(min_val_default, c.ge[1]) ELSE min_val_default
    IN  IF c.gt # None THEN Max(min0, c.gt[1] + 1) ELSE min0

IntMaxDeclared(c) ==
    LET max0 == IF c.le # None THEN Min(max_val_default, c.le[1]) ELSE max_val_default
    IN  IF c.lt # None THEN Min(max0, c.lt[1] - 1) ELSE max0

\* if min_val > max_val: max_val = min_val
IntMax(c) == IF IntMin(c) > IntMaxDeclared(c) THEN IntMin(c) ELSE IntMaxDeclared(c)

\* the smallest multiple of m that is >= min_val, as lines 373-379 compute it
ActualMinMultiple(min_val, m) ==
    LET first == IF min_val >= 0
                 THEN ((min_val + m - 1) \div m) * m
                 ELSE (min_val \div m) * m
    IN  IF first < min_val /\ min_val < 0 THEN first + m ELSE first

ActualMaxMultiple(max_val, m) == (max_val \div m) * m

\* the randint of lines 383 and 388 under the try of line 371:
\* a ValueError makes the function return min_val without a draw
IntDraw(min_val, max_val, st) ==
    IF RandIntRaises(min_val, max_val)
    THEN Res(IntV(min_val), st)
    ELSE Res(IntV(RandInt(st.rnd, min_val, max_val)), RndStep(st))

\* a bug: with no multiple in the range, the multiple above it is returned
IntMultipleDraw_NoFallback(min_val, max_val, m, st) ==
    Res(IntV(ActualMinMultiple(min_val, m)), st)

IntMultipleDraw(min_val, max_val, m, st) ==
    LET lo == ActualMinMultiple(min_val, m)
        hi == ActualMaxMultiple(max_val, m)
        num_steps == (hi - lo) \div m
    IN  IF lo > hi
        THEN IntDraw(min_val, max_val, st)
        ELSE IF RandIntRaises(0, num_steps)
             THEN Res(IntV(min_val), st)
             ELSE Res(IntV(lo + RandInt(st.rnd, 0, num_steps) * m), RndStep(st))

GenInt(c, st) ==
    IF c.multiple_of # None /\ c.multiple_of[1] > 0
    THEN IntMultipleDraw(IntMin(c), IntMax(c), c.multiple_of[1], st)
    ELSE IntDraw(IntMin(c), IntMax(c), st)

-----------------------------------------------------------------------------
(* float, core.py 392-420; floats are counted in millionths *)

Micro == 1000000
Cent == Micro \div 100
min_val_f_default == 0
max_val_f_default == 1000 * Micro

\* round(x / unit): to the nearest integer, a tie to the even one
RoundHalfEven(x, unit) ==
    LET q == x \div unit
        r == x % unit
    IN  IF 2 * r < unit THEN q
        ELSE IF 2 * r > unit THEN q + 1
        ELSE IF q % 2 = 0 THEN q ELSE q + 1

\* abs(b * 0.000001) + sys.float_info.epsilon: the epsilon is below the
\* resolution of the model and counts as one unit when the product is below it
Nudge(b) == Max(Abs(b) \div Micro, 1)

FloatMin(c) ==
    LET min0 == IF c.ge # None THEN Max(min_val_f_default, c.ge[1]) ELSE min_val_f_default
    IN  IF c.gt # None THEN Max(min0, c.gt[1]) ELSE min0

FloatMaxDeclared(c) ==
    LET max0 == IF c.le # None THEN Min(max_val_f_default, c.le[1]) ELSE max_val_f_default
    IN  IF c.lt # None THEN Min(max0, c.lt[1]) ELSE max0

FloatMax(c) == IF FloatMin(c) > FloatMaxDeclared(c) THEN FloatMin(c) ELSE FloatMaxDeclared(c)

Clamp(x, lo, hi) == Max(lo, Min(x, hi))

\* lines 409-414: push a drawn value off a strict bound, then clamp
FloatNudged(c, drawn) ==
    LET lo == FloatMin(c)
        hi == FloatMax(c)
        v1 == IF c.gt # None /\ drawn <= c.gt[1]
              THEN Min(c.gt[1] + Nudge(c.gt[1]), hi)
              ELSE drawn
        v2 == IF c.lt # None /\ v1 >= c.lt[1]
              THEN Max(c.lt[1] - Nudge(c.lt[1]), lo)
              ELSE v1
    IN  Clamp(v2, lo, hi)

\* lines 416-418: round to the nearest multiple, then clamp
FloatMultiple(c, v) ==
    IF c.multiple_of # None /\ c.multiple_of[1] > 0
    THEN Clamp(RoundHalfEven(v, c.multiple_of[1]) * c.multiple_of[1], FloatMin(c), FloatMax(c))
    ELSE v

\* line 420: round(val_f, 2)
Round2(v) == RoundHalfEven(v, Cent) * Cent

GenFloat(c, st) ==
    LET drawn == Uniform(st.rnd, FloatMin(c), FloatMax(c))
    IN  Res(FloatV(Round2(FloatMultiple(c, FloatNudged(c, drawn)))), RndStep(st))

-----------------------------------------------------------------------------
(* str, core.py 422-449; a string is its length and the draw that wrote it *)

min_len_default == 1
max_len_default == 50

StrMaxLen(c) ==
    LET max0 == IF c.max_length # None THEN c.max_length[1] ELSE max_len_default
    IN  IF max0 < 0 THEN 0 ELSE max0

\* a bug: a minimum above the maximum is kept
StrMinLen_Kept(c) ==
    LET min0 == IF c.min_length # None THEN c.min_length[1] ELSE min_len_default
    IN  IF min0 < 0 THEN 0 ELSE min0

\* if min_len > max_len: min_len = max_len
StrMinLen(c) ==
    LET min0 == IF c.min_length # None THEN c.min_length[1] ELSE min_len_default
        min1 == IF min0 < 0 THEN 0 ELSE min0
    IN  IF min1 > StrMaxLen(c) THEN StrMaxLen(c) ELSE min1

\* faker.pystr(min_chars = n, max_chars = n): exactly n characters
Pystr(n, st) == Res(StrV(n, FakerRaw(st) + RndMod * (st.loc + 1)), FakerStep(st))

\* faker.text(max_nb_chars = n): a text of 1 to n characters
FakerText(n, st) ==
    Res(StrV(1 + RandBelow(FakerRaw(st), n), FakerRaw(st) + RndMod * (st.loc + 1)),
        FakerStep(st))

\* a bug: the text is returned without the padding
PadLetters_None(text, k, st) == Res(text, st)

\* text + "".join(faker.random_letters(length = k))
PadLetters(text, k, st) ==
    Res(StrV(text.n + k, text.id + RndMod * RndMod * (FakerRaw(st) + 1)), FakerStep(st))

text_extra_chars == 20
target_len_slack == 5

\* lines 436-438: the length asked of faker.text, drawn once or twice
TargetGenLen(min_len, max_len, st) ==
    LET first == RandInt(st.rnd, min_len, Max(min_len, max_len + target_len_slack))
    IN  IF first < target_len_slack /\ max_len > target_len_slack
        THEN Res(RandInt(Advance(st.rnd), min_len, target_len_slack), RndStep(RndStep(st)))
        ELSE Res(first, RndStep(st))

\* line 440
TextOfTarget(target) ==
    IF target.val <= 0
    THEN Res(StrV(0, 0), target.st)
    ELSE FakerText(target.val + text_extra_chars, target.st)

\* text[:max_len]
CutText(text, max_len) == StrV(Min(text.n, max_len), text.id)

\* lines 442-449
FitText(min_len, max_len, made) ==
    IF CutText(made.val, max_len).n < min_len
    THEN PadLetters(CutText(made.val, max_len),
                    min_len - CutText(made.val, max_len).n, made.st)
    ELSE Res(CutText(made.val, max_len), made.st)

GenStrOfLen(min_len, max_len, st) ==
    IF min_len = max_len
    THEN IF min_len > 0 THEN Pystr(min_len, st) ELSE Res(StrV(0, 0), st)
    ELSE FitText(min_len, max_len, TextOfTarget(TargetGenLen(min_len, max_len, st)))

GenStr(c, st) == GenStrOfLen(StrMinLen(c), StrMaxLen(c), st)

-----------------------------------------------------------------------------
(* bool, uuid, datetime, date, time, core.py 451-463 *)

GenBool(st) == Res(BoolV(Choice(st.rnd, <<1, 0>>)), RndStep(st))

GenUuid(st) == Res(V("uuid", 0, FakerRaw(st), "", <<>>), FakerStep(st))

seconds_per_day == 86400
ten_years_days == 3652

\* date_time_between(start_date = "-10y", end_date = "now"): a second drawn
\* from the ten years that end at the current wall-clock second
GenDatetime(st) ==
    LET width == ten_years_days * seconds_per_day
    IN  Res(V("datetime", (st.now - width) + RandBelow(FakerRaw(st), width + 1), 0, "", <<>>),
            FakerStep(st))

\* date_between(start_date = "-10y", end_date = "today"): a day drawn from the
\* ten years that end at the current day
GenDate(st) ==
    LET today == st.now \div seconds_per_day
    IN  Res(V("date", (today - ten_years_days) + RandBelow(FakerRaw(st), ten_years_days + 1), 0, "", <<>>),
            FakerStep(st))

GenTime(st) == Res(V("time", RandBelow(FakerRaw(st), seconds_per_day), 0, "", <<>>), FakerStep(st))

-----------------------------------------------------------------------------
(* Literal, Enum, placeholders, core.py 309-325 and 464-468 *)

\* a bug: the name of the chosen member is emitted instead of its value
GenMember_Name(ftype, st) == Res(TextV(Choice(st.rnd, ftype.vals).k), RndStep(st))

\* random.choice(args) / random.choice(enum_members).value
GenMember(ftype, st) == Res(Choice(st.rnd, ftype.vals).val, RndStep(st))

EmptyPlaceholder(kind, ftype) == TextV("unsupported_type_empty_" \o kind \o "_" \o ftype.name)

\* a bug: the placeholder does not name the type
UnsupportedPlaceholder_NoName(ftype) == TextV("unsupported_type")

\* f"unsupported_type_{field_type_to_generate!s}"
UnsupportedPlaceholder(ftype) == TextV("unsupported_type_" \o ftype.name)

AnyPlaceholder == TextV("any_value_placeholder")

-----------------------------------------------------------------------------
(* Generation by field name, core.py 85-161 and 197-229 *)

FakerStrNames ==
    {"name", "first_name", "last_name", "prefix", "suffix", "user_name", "username",
     "password", "email", "safe_email", "free_email", "company_email", "website",
     "phone_number", "address", "street_address", "secondary_address",
     "building_number", "street_name", "city", "state", "zip_code", "postcode",
     "country", "country_code", "company", "company_suffix", "catch_phrase", "bs",
     "job", "text", "sentence", "paragraph", "word", "slug", "url", "uri",
     "domain_name", "ipv4_private", "ipv4_public", "ipv4", "ipv6", "mac_address",
     "date", "time", "date_time", "iso8601", "timezone", "color_name", "hex_color",
     "rgb_color", "safe_hex_color", "file_name", "file_extension", "mime_type",
     "uuid4", "md5", "sha1", "sha256", "locale", "currency_code",
     "credit_card_number", "credit_card_expire", "credit_card_security_code"}
FakerFloatNames == {"latitude", "longitude"}
FakerOtherNames == {"words", "boolean"}
FAKER_FIELD_NAME_MAP == FakerStrNames \cup FakerFloatNames \cup FakerOtherNames

\* one category generator: a text of 1 to MaxCatLen characters
CategoryText(st) ==
    Res(StrV(1 + RandBelow(FakerRaw(st), MaxCatLen), FakerRaw(st) + RndMod * (st.loc + 1)),
        FakerStep(st))

\* "words" is faker.words(nb=3)
GeneratedByName(name, st) ==
    IF name \in FakerFloatNames
    THEN Res(FloatV(RandBelow(FakerRaw(st), 180 * Micro) - 90 * Micro), FakerStep(st))
    ELSE IF name = "boolean"
    THEN Res(BoolV(Choice(FakerRaw(st), <<1, 0>>)), FakerStep(st))
    ELSE IF name = "words"
    THEN LET w1 == CategoryText(st)
             w2 == CategoryText(w1.st)
             w3 == CategoryText(w2.st)
         IN  Res(ListV(<<w1.val, w2.val, w3.val>>), w3.st)
    ELSE CategoryText(st)

\* lines 202-226: a str generated by name for a str field is cut to the
\* max_length and padded to the min_length that getattr finds on the FieldInfo
FitByNameText(field, text, st) ==
    LET raw_max == field.attrs.max_length
        raw_min == field.attrs.min_length
        max_len == IF raw_max # None THEN Max(raw_max[1], 0) ELSE 0
        min_len == IF raw_min # None THEN Max(raw_min[1], 0) ELSE 0
        cut == IF raw_max # None /\ text.n > max_len THEN StrV(max_len, text.id) ELSE text
    IN  IF raw_min # None /\ cut.n < min_len
        THEN LET padded == PadLetters(cut, min_len - cut.n, st)
             IN  IF raw_max # None /\ padded.val.n > max_len
                 THEN Res(StrV(max_len, padded.val.id), padded.st)
                 ELSE padded
        ELSE Res(cut, st)

FitByName(field, ftype, made) ==
    IF made.val.t = "str" /\ ftype.k = "str"
    THEN FitByNameText(field, made.val, made.st)
    ELSE made

ByName(field, ftype, st) == FitByName(field, ftype, GeneratedByName(field.name, st))

-----------------------------------------------------------------------------
(* List and dict sizes, core.py 237-254 and 262-275 *)

min_items_default == 1
max_items_default == 3

\* a bug: the declared min_length is not read
ListMinItems_Default(field) == min_items_default

ListMinItems(field) ==
    LET m == field.metadata.min_length
        min0 == IF m # None THEN m[1] ELSE min_items_default
    IN  IF min0 < 0 THEN 0 ELSE min0

\* if min_items > max_items: max_items = min_items
ListMaxItems(field) ==
    LET m == field.metadata.max_length
        max0 == IF m # None THEN m[1] ELSE max_items_default
        max1 == IF max0 < 0 THEN 0 ELSE max0
    IN  IF ListMinItems(field) > max1 THEN ListMinItems(field) ELSE max1

DictMaxItems(field) ==
    LET a == field.attrs.max_length
        max0 == IF a # None THEN a[1] ELSE max_items_default
    IN  IF max0 < 0 THEN 0 ELSE max0

\* if min_items_dict > max_items_dict: min_items_dict = max_items_dict
DictMinItems(field) ==
    LET a == field.attrs.min_length
        min0 == IF a # None THEN a[1] ELSE min_items_default
        min1 == IF min0 < 0 THEN 0 ELSE min0
    IN  IF min1 > DictMaxItems(field) THEN DictMaxItems(field) ELSE min1

\* current_faker_instance.word(): one of the locale's words
Words == <<"alpha", "beta", "gamma", "delta">>
FakerWord(st) == Choice(FakerRaw(st), Words)

\* data[key] = value on a dict: a key already present keeps its place and
\* takes the new value
DictPut(entries, k, val) ==
    IF \E i \in 1 .. Len(entries) : entries[i].k = k
    THEN [i \in 1 .. Len(entries) |-> IF entries[i].k = k THEN Entry(k, val) ELSE entries[i]]
    ELSE Append(entries, Entry(k, val))

-----------------------------------------------------------------------------
(* The value synthesizer and the instance assembler, core.py 66-83, 163-325, 464-468 *)

\* origin_type in (Union, UnionType) and type(None) in type_args
IsOptional(annotation) ==
    annotation.k = "union" /\ \E i \in 1 .. Len(annotation.args) : annotation.args[i].k = "NoneType"

\* [arg for arg in type_args if arg is not type(None)]
ActualTypeArgs(annotation) == SelectSeq(annotation.args, LAMBDA a : a.k # "NoneType")

\* random.random() < 0.5
OptionalDrawsNull(st) == RandomLess(st.rnd, 1, 2)

\* random.random() < 0.3
ExampleDrawn(st) == RandomLess(st.rnd, 3, 10)

\* get_faker_instance: Faker.seed(seed) seeds the shared generator,
\* seed_instance(seed) gives the instance a generator of its own
get_faker_instance(locale, seed, shared) ==
    IF seed # None
    THEN [shared |-> SeedState(seed[1]), inst |-> Some(SeedState(seed[1])),
          loc |-> IF locale = None THEN 0 ELSE locale[1]]
    ELSE [shared |-> shared, inst |-> None,
          loc |-> IF locale = None THEN 0 ELSE locale[1]]

Out(data, st) == [data |-> data, st |-> st]

\* a bug: the nulled field is skipped instead of recorded
RecordNull_Skip(field, data, st) == Out(data, st)

\* data[field_name] = None; continue
RecordNull(field, data, st) == Out(DictPut(data, field.name, NoneV), st)

\* data[field_name] = <value>
RecordValue(field, data, made) == Out(DictPut(data, field.name, made.val), made.st)

\* Python runs statements in order: `made` is computed in full before `next`
AndThen(made, next) == IF made = made THEN next ELSE next

RECURSIVE generate_fake_data_for_model(_, _, _, _, _)
RECURSIVE generate_value_for_type(_, _, _)
RECURSIVE generate_items(_, _, _, _)
RECURSIVE generate_dict_entries(_, _, _, _)
RECURSIVE assemble_fields(_, _, _, _)

\* [_generate_value_for_type(list_item_type, faker, None) for _ in range(num_items)]
MoreItems(item_type, num_items, items, made) ==
    AndThen(made, generate_items(item_type, num_items, Append(items, made.val), made.st))

generate_items(item_type, num_items, items, st) ==
    IF Len(items) >= num_items
    THEN Res(ListV(items), st)
    ELSE MoreItems(item_type, num_items, items, generate_value_for_type(item_type, st, None))

\* {faker.word(): _generate_value_for_type(dict_value_type, faker, None) for _ in range(num_items)}
MoreEntries(value_type, left, entries, key, made) ==
    AndThen(made, generate_dict_entries(value_type, left - 1,
                                        DictPut(entries, key, made.val), made.st))

generate_dict_entries(value_type, left, entries, st) ==
    IF left <= 0
    THEN Res(DictV(entries), st)
    ELSE MoreEntries(value_type, left, entries, FakerWord(st),
                     generate_value_for_type(value_type, FakerStep(st), None))

\* isinstance(t, type) and issubclass(t, BaseModel):
\* generate_fake_data_for_model(t, faker_instance_override = faker_instance)
ModelRes(inner) == Res(ModelV(inner.data), inner.st)

GenNested(ftype, st) ==
    ModelRes(generate_fake_data_for_model(ftype, None, None, Some("caller"), st))

\* line 321-325: random.choice(args), then the chosen type without field_info
GenUnion(ftype, st) ==
    generate_value_for_type(Choice(st.rnd, ftype.args), RndStep(st), None)

generate_value_for_type(ftype, st, field_info) ==
    LET c == ExtractConstraints(field_info)
    IN  CASE ftype.k = "literal" ->
                IF Len(ftype.vals) > 0 THEN GenMember(ftype, st)
                ELSE Res(EmptyPlaceholder("literal", ftype), st)
          [] ftype.k = "enum" ->
                IF Len(ftype.vals) > 0 THEN GenMember(ftype, st)
                ELSE Res(EmptyPlaceholder("enum", ftype), st)
          [] ftype.k = "union" ->
                IF Len(ftype.args) > 0 THEN GenUnion(ftype, st)
                ELSE Res(EmptyPlaceholder("union", ftype), st)
          [] ftype.k = "int" -> GenInt(c, st)
          [] ftype.k = "float" -> GenFloat(c, st)
          [] ftype.k = "str" -> GenStr(c, st)
          [] ftype.k = "bool" -> GenBool(st)
          [] ftype.k = "uuid" -> GenUuid(st)
          [] ftype.k = "datetime" -> GenDatetime(st)
          [] ftype.k = "date" -> GenDate(st)
          [] ftype.k = "time" -> GenTime(st)
          [] ftype.k = "model" -> GenNested(ftype, st)
          [] ftype.k = "Any" -> Res(AnyPlaceholder, st)
          [] OTHER -> Res(UnsupportedPlaceholder(ftype), st)

\* lines 233-257
ListField(field, ftype, data, st) ==
    LET item_type == IF Len(ftype.args) > 0 THEN ftype.args[1] ELSE AnyT
        num_items == RandInt(st.rnd, ListMinItems(field), ListMaxItems(field))
    IN  RecordValue(field, data, generate_items(item_type, num_items, <<>>, RndStep(st)))

\* lines 258-283
DictField(field, ftype, data, st) ==
    LET value_type == IF Len(ftype.args) = 2 THEN ftype.args[2] ELSE AnyT
        num_items == RandInt(st.rnd, DictMinItems(field), DictMaxItems(field))
    IN  RecordValue(field, data, generate_dict_entries(value_type, num_items, <<>>, RndStep(st)))

\* lines 231-290: dispatch on the origin of the type to generate
ByType(field, ftype, data, st) ==
    IF ftype.k = "list" THEN ListField(field, ftype, data, st)
    ELSE IF ftype.k = "dict" THEN DictField(field, ftype, data, st)
    ELSE RecordValue(field, data, generate_value_for_type(ftype, st, Some(field)))

\* lines 197-229
ByNameOrType(field, ftype, data, st) ==
    IF field.name \in FAKER_FIELD_NAME_MAP
    THEN RecordValue(field, data, ByName(field, ftype, st))
    ELSE ByType(field, ftype, data, st)

\* a bug: a matching field name is served before the examples are consulted
ByExample_NameFirst(field, ftype, data, st) ==
    IF field.name \in FAKER_FIELD_NAME_MAP
    THEN RecordValue(field, data, ByName(field, ftype, st))
    ELSE IF Len(field.examples) > 0 /\ ExampleDrawn(st)
    THEN RecordValue(field, data,
             Res(Choice(Advance(st.rnd), field.examples), RndStep(RndStep(st))))
    ELSE ByType(field, ftype, data,
                IF Len(field.examples) > 0 THEN RndStep(st) ELSE st)

\* lines 185-195: the draw is made only when the examples list is not empty
ByExample(field, ftype, data, st) ==
    IF Len(field.examples) > 0 /\ ExampleDrawn(st)
    THEN RecordValue(field, data,
             Res(Choice(Advance(st.rnd), field.examples), RndStep(RndStep(st))))
    ELSE ByNameOrType(field, ftype, data,
                      IF Len(field.examples) > 0 THEN RndStep(st) ELSE st)

\* a bug: the union is not narrowed to its first non-null alternative
TypeForGeneration_NotNarrowed(annotation) == annotation

\* field_type_for_generation, lines 177-183
TypeForGeneration(annotation) ==
    IF IsOptional(annotation) THEN ActualTypeArgs(annotation)[1] ELSE annotation

\* lines 165-183: the body of the loop for one field
AssembleField(field, data, st) ==
    IF /\ IsOptional(field.annotation)
       /\ OptionalDrawsNull(st) \/ Len(ActualTypeArgs(field.annotation)) = 0
    THEN RecordNull(field, data, RndStep(st))
    ELSE ByExample(field, TypeForGeneration(field.annotation), data,
                   IF IsOptional(field.annotation) THEN RndStep(st) ELSE st)

AfterField(fields, i, done) ==
    AndThen(done, assemble_fields(fields, i + 1, done.data, done.st))

\* for field_name, field_info in model_class.model_fields.items()
assemble_fields(fields, i, data, st) ==
    IF i > Len(fields)
    THEN Out(data, st)
    ELSE AfterField(fields, i, AssembleField(fields[i], data, st))

\* lines 77-83: the caller's Faker instance, or a fresh one after seeding
\* `random` and Faker with the seed
SeededState(faker_locale, seed, faker_instance_override, g) ==
    IF faker_instance_override # None
    THEN g
    ELSE LET f == get_faker_instance(faker_locale, seed, g.shared)
         IN  GenState(IF seed # None THEN SeedState(seed[1]) ELSE g.rnd,
                      f.shared, f.inst, f.loc, g.now)

generate_fake_data_for_model(model, faker_locale, seed, faker_instance_override, g) ==
    assemble_fields(model.fields, 1, <<>>,
                    SeededState(faker_locale, seed, faker_instance_override, g))

-----------------------------------------------------------------------------
(* Schemas: the models of tests/helpers.py, and one-field models over a grid
   of constraints *)

Cons(gt, ge, lt, le, multiple_of) ==
    [gt |-> gt, ge |-> ge, lt |-> lt, le |-> le, multiple_of |-> multiple_of,
     min_length |-> None, max_length |-> None]
Lens(min_length, max_length) ==
    [gt |-> None, ge |-> None, lt |-> None, le |-> None, multiple_of |-> None,
     min_length |-> min_length, max_length |-> max_length]

NestedModel ==
    ModelT("NestedModel",
           <<Plain("nested_id", IntT),
             Plain("nested_name", StrT),
             Plain("value", UnionT(<<FloatT, NoneT>>))>>)

SimpleTestModel ==
    ModelT("SimpleTestModel",
           <<Plain("id", IntT),
             Plain("name", StrT),
             Plain("email", OtherT("<class 'pydantic.networks.EmailStr'>")),
             Plain("is_active", BoolT),
             Plain("uuid", UuidT),
             Plain("created_at", DatetimeT),
             Plain("birth_date", DateT),
             Plain("wakeup_time", TimeT),
             Plain("description", StrT),
             Plain("website", UnionT(<<OtherT("<class 'pydantic.networks.HttpUrl'>"), NoneT>>)),
             Plain("rating", UnionT(<<FloatT, NoneT>>)),
             Plain("tags", ListT(<<StrT>>)),
             Plain("metadata", UnionT(<<DictT(<<StrT, AnyT>>), NoneT>>))>>)

ComplexTestModel ==
    ModelT("ComplexTestModel",
           <<Plain("order_id", StrT),
             Plain("user_details", SimpleTestModel),
             Plain("items", ListT(<<NestedModel>>)),
             Plain("configuration", DictT(<<StrT, BoolT>>)),
             Plain("notes", UnionT(<<StrT, NoneT>>))>>)

StatusEnum ==
    EnumT("StatusEnum",
          <<Entry("ACTIVE", TextV("active")), Entry("INACTIVE", TextV("inactive")),
            Entry("PENDING", TextV("pending"))>>)

Direction == LiteralT(<<TextV("north"), TextV("south"), TextV("east"), TextV("west")>>)

AdvancedTypesModel ==
    ModelT("AdvancedTypesModel",
           <<Plain("direction", Direction),
             Plain("status", StatusEnum),
             Plain("mixed_type", UnionT(<<IntT, StrT, BoolT>>))>>)

ModelWithExamples ==
    ModelT("ModelWithExamples",
           <<Field("status", StrT, NoCons, <<TextV("active"), TextV("pending"), TextV("archived")>>),
             Field("priority", IntT, NoCons, <<IntV(1), IntV(2), IntV(3), IntV(4), IntV(5)>>),
             Field("tags", ListT(<<StrT>>), NoCons,
                   <<ListV(<<TextV("tag1"), TextV("tag2")>>), ListV(<<TextV("urgent")>>)>>)>>)

\* a union with a null alternative next to two others, an Optional with
\* constraints of its own, and types the synthesizer has no branch for
OptionalTypesModel ==
    ModelT("OptionalTypesModel",
           <<Plain("either", UnionT(<<IntT, StrT, NoneT>>)),
             Field("score", UnionT(<<IntT, NoneT>>), Cons(None, Some(5), None, Some(7), None), <<>>),
             Plain("amount", OtherT("<class 'decimal.Decimal'>")),
             Plain("members", OtherT("set[int]"))>>)

MainModels ==
    {SimpleTestModel, ComplexTestModel, AdvancedTypesModel, ModelWithExamples,
     OptionalTypesModel}

OneField(name, annotation, metadata) == ModelT(name, <<Field("value", annotation, metadata, <<>>)>>)

IntMultiples == {None, Some(3), Some(10)}
IntModels ==
    {OneField("IntModel", IntT, Cons(gt, ge, lt, le, m)) :
        gt \in {None, Some(-3), Some(4), Some(1000)},
        ge \in {None, Some(-2), Some(5), Some(1001)},
        lt \in {None, Some(-1), Some(8), Some(1000)},
        le \in {None, Some(-2), Some(7), Some(1001)},
        m \in IntMultiples}

\* a float constraint: units and hundredths, in millionths
Dec(units, hundredths) == Some(units * Micro + hundredths * Cent)

\* the float fields of ConstrainedNumbersModel, and a grid around 0, 1 and 2
FloatModels ==
    {OneField("FloatModel", FloatT, c) :
        c \in {Cons(Dec(10, 50), None, None, None, None),
               Cons(None, Dec(5, 25), None, None, None),
               Cons(None, None, Dec(20, 75), None, None),
               Cons(None, None, None, Dec(15, 50), None),
               Cons(Dec(100, 0), None, Dec(100, 10), None, None),
               Cons(None, Dec(50, 0), None, Dec(50, 50), None),
               Cons(None, None, None, None, Dec(0, 50)),
               Cons(Dec(1, 0), None, None, Dec(10, 0), Dec(2, 50))}}
    \cup
    {OneField("FloatModel", FloatT, Cons(gt, ge, lt, None, m)) :
        gt \in {None, Dec(0, 0), Dec(1, 0)},
        ge \in {None, Dec(1, 0)},
        lt \in {None, Dec(2, 0)},
        m \in {None, Dec(0, 50)}}

StrModels ==
    {OneField("StrModel", StrT, Lens(min_length, max_length)) :
        min_length \in {None, Some(0), Some(3), Some(5), Some(60)},
        max_length \in {None, Some(0), Some(4), Some(7), Some(10)}}

\* str fields named after a category of FAKER_FIELD_NAME_MAP, with lengths
\* declared as ConstrainedStringsModel declares them
NameModels ==
    {ModelT("NamedModel", <<Field(name, StrT, Lens(min_length, max_length), <<>>)>>) :
        name \in {"name", "city"},
        min_length \in {None, Some(2), Some(5)},
        max_length \in {None, Some(2), Some(6)}}

ListModels ==
    {OneField("ListModel", ListT(<<item>>), Lens(min_length, max_length)) :
        item \in {IntT, BoolT},
        min_length \in {None, Some(0), Some(2), Some(4)},
        max_length \in {None, Some(0), Some(1), Some(3), Some(4)}}

-----------------------------------------------------------------------------
(* The state machine *)

SeedArgs == {None, Some(0), Some(777)}
LocaleArgs == {None}

Call(faker_locale, seed, at, data) ==
    [faker_locale |-> faker_locale, seed |-> seed, at |-> at, data |-> data]

\* the two generators start from the entropy of the operating system
InitIn(models, shared) ==
    /\ rnd \in RndStates
    /\ fakerShared \in shared
    /\ clock = 0
    /\ model_class \in models
    /\ last = None
    /\ prev = None
    /\ store = <<>>
    /\ reply = None
    /\ faker_instance_for_new_items = None
    /\ inflight = <<>>
    /\ fake_data_list = <<>>

\* one top-level call generate_fake_data_for_model(model_class, faker_locale, seed)
\* the call returns `out`: the generators keep the state the call left
Return(faker_locale, seed, out) ==
    /\ rnd' = out.st.rnd
    /\ fakerShared' = out.st.shared
    /\ last' = Some(Call(faker_locale, seed, clock, out.data))
    /\ prev' = last
    /\ UNCHANGED <<clock, model_class, store, reply, faker_instance_for_new_items, inflight,
                   fake_data_list>>

Generate(faker_locale, seed) ==
    Return(faker_locale, seed,
           generate_fake_data_for_model(model_class, faker_locale, seed, None,
                                        GenState(rnd, fakerShared, None, 0, clock)))

\* the wall clock advances between calls
Tick ==
    /\ clock < MaxClock
    /\ clock' = clock + 1
    /\ UNCHANGED <<rnd, fakerShared, model_class, last, prev, store, reply,
                   faker_instance_for_new_items, inflight, fake_data_list>>

GenerateCall == \E faker_locale \in LocaleArgs, seed \in SeedArgs : Generate(faker_locale, seed)

\* the first call of a process
FirstCall == last = None /\ GenerateCall

Init == InitIn(MainModels, RndStates)
Next == GenerateCall \/ Tick
Spec == Init /\ [][Next]_vars

\* one call on a one-field model, over every constraint of the grid
InitInt == InitIn(IntModels, {0})
NextField == FirstCall
SpecInt == InitInt /\ [][NextField]_vars

InitFloat == InitIn(FloatModels, {0})
SpecFloat == InitFloat /\ [][NextField]_vars

InitStr == InitIn(StrModels, RndStates)
SpecStr == InitStr /\ [][NextField]_vars

InitList == InitIn(ListModels, {0})
SpecList == InitList /\ [][NextField]_vars

InitName == InitIn(NameModels, RndStates)
SpecName == InitName /\ [][NextField]_vars

\* tests/test_server_endpoints.py 17-20: faker_instance = get_faker_instance(seed=n),
\* then generate_fake_data_for_model(model_class, faker_instance_override=faker_instance).
\* Nothing on this path calls random.seed: the `random` module keeps its state.
\* The call is recorded under the seed of its provider.
GenerateWithOverride(seed) ==
    Return(None, seed,
           generate_fake_data_for_model(
               model_class, None, None, Some(get_faker_instance(None, seed, fakerShared).inst),
               GenState(rnd,
                        get_faker_instance(None, seed, fakerShared).shared,
                        get_faker_instance(None, seed, fakerShared).inst,
                        get_faker_instance(None, seed, fakerShared).loc,
                        clock)))

\* one int field, Optional or not, with or without examples, named after a
\* category of FAKER_FIELD_NAME_MAP or not; no example is a value the type
\* generator gives
OrderModels ==
    {ModelT("OrderModel", <<Field(name, annotation, NoCons, examples)>>) :
        name \in {"name", "value"},
        annotation \in {IntT, UnionT(<<IntT, NoneT>>)},
        examples \in {<<>>, <<IntV(-1), IntV(-2)>>}}

InitOrder == InitIn(OrderModels, RndStates)
SpecOrder == InitOrder /\ [][NextField]_vars

\* list[T | None] and dict[str, T | None]: an Optional type below the field
NestedOptionalModels ==
    {OneField("NestedOptionalModel", ListT(<<UnionT(<<inner, NoneT>>)>>), NoCons) :
        inner \in {IntT, StrT, BoolT}}
    \cup {OneField("NestedOptionalModel", DictT(<<StrT, UnionT(<<inner, NoneT>>)>>), NoCons) :
             inner \in {IntT, StrT, BoolT}}

InitNested == InitIn(NestedOptionalModels, RndStates)
SpecNested == InitNested /\ [][NextField]_vars

\* str and list fields over the grid of declared lengths
LengthModels == StrModels \cup ListModels
InitLength == InitIn(LengthModels, RndStates)
SpecLength == InitLength /\ [][NextField]_vars

ProviderSeeds == {Some(0), Some(777)}
OverrideCall == \E seed \in ProviderSeeds : GenerateWithOverride(seed)

NextOverride == OverrideCall \/ Tick
SpecOverride == Init /\ [][NextOverride]_vars

-----------------------------------------------------------------------------
(* The mock resource server, server.py.  Identifiers and query values are
   texts: sequences of one-character strings. *)

DigitChars == <<"0", "1", "2", "3", "4", "5", "6", "7", "8", "9">>
UpperChars == <<"A", "E", "F", "L", "N", "O", "R", "S", "T", "U", "Y">>
LowerChars == <<"a", "e", "f", "l", "n", "o", "r", "s", "t", "u", "y">>

IsDigit(ch) == \E d \in 1 .. Len(DigitChars) : DigitChars[d] = ch
DigitValue(ch) == (CHOOSE d \in 1 .. Len(DigitChars) : DigitChars[d] = ch) - 1

RECURSIVE NatText(_)
NatText(n) ==
    IF n < Len(DigitChars)
    THEN <<DigitChars[n + 1]>>
    ELSE NatText(n \div Len(DigitChars)) \o <<DigitChars[(n % Len(DigitChars)) + 1]>>

IntText(n) == IF n < 0 THEN <<"-">> \o NatText(-n) ELSE NatText(n)

\* a text kept in an item or sent in a payload
CharsV(chars) == V("str", Len(chars), 0, "", chars)

\* str(value); a generated text is known by its length and its source, and
\* spelled with one letter
PyStr(v) ==
    CASE v.t = "none" -> <<"N", "o", "n", "e">>
      [] v.t = "int" -> IntText(v.n)
      [] v.t = "bool" -> IF v.n = 1 THEN <<"T", "r", "u", "e">> ELSE <<"F", "a", "l", "s", "e">>
      [] v.t = "uuid" -> <<"u", "-">> \o NatText(v.id)
      [] v.t = "str" /\ v.items = <<>> -> [i \in 1 .. v.n |-> LowerChars[(v.id % Len(LowerChars)) + 1]]
      [] OTHER -> v.items

\* str.lower()
LowerChar(ch) ==
    IF \E i \in 1 .. Len(UpperChars) : UpperChars[i] = ch
    THEN LowerChars[CHOOSE i \in 1 .. Len(UpperChars) : UpperChars[i] = ch]
    ELSE ch
Lower(text) == [i \in 1 .. Len(text) |-> LowerChar(text[i])]

RECURSIVE LStrip(_)
LStrip(text) == IF Len(text) > 0 /\ text[1] = " " THEN LStrip(Tail(text)) ELSE text
RECURSIVE RStrip(_)
RStrip(text) ==
    IF Len(text) > 0 /\ text[Len(text)] = " "
    THEN RStrip(SubSeq(text, 1, Len(text) - 1))
    ELSE text

HasSign(text) == Len(text) > 0 /\ text[1] \in {"-", "+"}
Unsigned(text) == IF HasSign(text) THEN Tail(text) ELSE text

\* digits, single underscores allowed between two digits
IsIntLiteral(body) ==
    /\ Len(body) > 0
    /\ \A i \in 1 .. Len(body) :
           \/ IsDigit(body[i])
           \/ /\ body[i] = "_"
              /\ 1 < i /\ i < Len(body)
              /\ IsDigit(body[i - 1]) /\ IsDigit(body[i + 1])

RECURSIVE LiteralValue(_, _)
LiteralValue(body, acc) ==
    IF Len(body) = 0 THEN acc
    ELSE IF body[1] = "_" THEN LiteralValue(Tail(body), acc)
    ELSE LiteralValue(Tail(body), acc * Len(DigitChars) + DigitValue(body[1]))

SignedValue(text) ==
    IF Len(text) > 0 /\ text[1] = "-"
    THEN 0 - LiteralValue(Unsigned(text), 0)
    ELSE LiteralValue(Unsigned(text), 0)

\* int(text): Some(n), or None where Python raises ValueError
ParseStripped(text) ==
    IF IsIntLiteral(Unsigned(text)) THEN Some(SignedValue(text)) ELSE None
PyInt(text) == ParseStripped(RStrip(LStrip(text)))

\* dict.get(k): None when the key is missing
DictGet(item, k) ==
    IF \E i \in 1 .. Len(item) : item[i].k = k
    THEN item[CHOOSE i \in 1 .. Len(item) : item[i].k = k].val
    ELSE NoneV

\* name in model_class.model_fields
HasField(model, name) == \E i \in 1 .. Len(model.fields) : model.fields[i].name = name
FieldOf(model, name) == model.fields[CHOOSE i \in 1 .. Len(model.fields) : model.fields[i].name = name]

\* the part of a decimal literal before and after the first "."
DotAt(text) == IF \E i \in 1 .. Len(text) : text[i] = "."
               THEN CHOOSE i \in 1 .. Len(text) : text[i] = "." /\ \A j \in 1 .. i - 1 : text[j] # "."
               ELSE Len(text) + 1
Whole(text) == SubSeq(text, 1, DotAt(text) - 1)
Fraction(text) == SubSeq(text, DotAt(text) + 1, Len(text))

RECURSIVE Power(_, _)
Power(b, e) == IF e = 0 THEN 1 ELSE b * Power(b, e - 1)

\* the fraction in millionths; digits past the sixth are dropped
FractionMicro(digits) ==
    LET kept == SubSeq(digits, 1, Min(Len(digits), 6))
    IN  LiteralValue(kept, 0) * Power(10, 6 - Len(kept))

IsFloatLiteral(body) ==
    /\ \A i \in 1 .. Len(Whole(body)) : IsDigit(Whole(body)[i])
    /\ \A i \in 1 .. Len(Fraction(body)) : IsDigit(Fraction(body)[i])
    /\ Len(Whole(body)) + Len(Fraction(body)) > 0

UnsignedMicro(body) == LiteralValue(Whole(body), 0) * Micro + FractionMicro(Fraction(body))

\* float(text) in millionths for plain decimal literals: Some(n), or None
\* where Python raises ValueError
ParseFloatStripped(text) ==
    IF IsFloatLiteral(Unsigned(text))
    THEN Some(IF Len(text) > 0 /\ text[1] = "-"
              THEN 0 - UnsignedMicro(Unsigned(text))
              ELSE UnsignedMicro(Unsigned(text)))
    ELSE None
PyFloat(text) == ParseFloatStripped(RStrip(LStrip(text)))

\* int(item_value), float(item_value) of a stored value
ValueAsInt(v) ==
    CASE v.t \in {"int", "bool"} -> Some(v.n)
      [] v.t = "float" -> Some(v.n \div Micro)
      [] v.t = "str" -> PyInt(v.items)
      [] OTHER -> None
ValueAsMicro(v) ==
    CASE v.t \in {"int", "bool"} -> Some(v.n * Micro)
      [] v.t = "float" -> Some(v.n)
      [] v.t = "str" -> PyFloat(v.items)
      [] OTHER -> None

-----------------------------------------------------------------------------
(* get_all_items, server.py 47-113 *)

\* lines 66-76
TypeForComparison(annotation) ==
    IF annotation.k = "union"
    THEN IF Len(ActualTypeArgs(annotation)) = 1 /\ IsOptional(annotation)
         THEN ActualTypeArgs(annotation)[1]
         ELSE IF Len(ActualTypeArgs(annotation)) = 0 /\ IsOptional(annotation)
         THEN NoneT
         ELSE annotation
    ELSE annotation

TrueWords == {<<"t", "r", "u", "e">>, <<"1">>, <<"y", "e", "s">>, <<"o", "n">>}
FalseWords == {<<"f", "a", "l", "s", "e">>, <<"0">>, <<"n", "o">>, <<"o", "f", "f">>}

\* a bug: the words are compared as sent, without lower()
QueryBool_CaseSensitive(query_value_str) ==
    IF query_value_str \in TrueWords THEN Some(1)
    ELSE IF query_value_str \in FalseWords THEN Some(0)
    ELSE None

\* lines 84-88: Some(1), Some(0) or None
QueryBool(query_value_str) ==
    IF Lower(query_value_str) \in TrueWords THEN Some(1)
    ELSE IF Lower(query_value_str) \in FalseWords THEN Some(0)
    ELSE None

\* item_value == query_bool
EqualsBool(item_value, query_bool) ==
    /\ query_bool # None
    /\ item_value.t \in {"bool", "int"}
    /\ item_value.n = query_bool[1]

\* a bug: the empty string is not taken for None
NoneMatch_WordOnly(query_value_str) == Lower(query_value_str) = <<"n", "o", "n", "e">>

\* lines 80-82
NoneMatch(query_value_str) ==
    Lower(query_value_str) = <<"n", "o", "n", "e">> \/ query_value_str = <<>>

\* lines 78-104: one query parameter against one item
ParamMatch(type_for_comparison, item_value, query_value_str) ==
    IF item_value = NoneV
    THEN NoneMatch(query_value_str)
    ELSE CASE type_for_comparison.k = "bool" ->
                  EqualsBool(item_value, QueryBool(query_value_str))
           [] type_for_comparison.k = "int" ->
                  /\ ValueAsInt(item_value) # None
                  /\ PyInt(query_value_str) # None
                  /\ ValueAsInt(item_value) = PyInt(query_value_str)
           [] type_for_comparison.k = "float" ->
                  /\ ValueAsMicro(item_value) # None
                  /\ PyFloat(query_value_str) # None
                  /\ ValueAsMicro(item_value) = PyFloat(query_value_str)
           [] OTHER -> PyStr(item_value) = query_value_str

\* a bug: a parameter that names no field matches no item
MatchesAll_UnknownFails(model, item, query_params) ==
    \A i \in 1 .. Len(query_params) :
        /\ HasField(model, query_params[i].k)
        /\ ParamMatch(TypeForComparison(FieldOf(model, query_params[i].k).annotation),
                      DictGet(item, query_params[i].k), query_params[i].val)

\* lines 58-108: parameters that name no field are skipped
MatchesAll(model, item, query_params) ==
    \A i \in 1 .. Len(query_params) :
        HasField(model, query_params[i].k) =>
            ParamMatch(TypeForComparison(FieldOf(model, query_params[i].k).annotation),
                       DictGet(item, query_params[i].k), query_params[i].val)

get_all_items(model, items, query_params) ==
    IF Len(query_params) = 0
    THEN items
    ELSE SelectSeq(items, LAMBDA item : MatchesAll(model, item, query_params))

-----------------------------------------------------------------------------
(* Request bodies: FastAPI validates the payload against model_class before
   the handler runs and answers 422 when it does not conform *)

HasKey(payload, k) == \E i \in 1 .. Len(payload) : payload[i].k = k

\* a JSON value accepted for an annotation
Conforms(annotation, val) ==
    IF val = NoneV
    THEN annotation.k = "NoneType" \/ IsOptional(annotation)
    ELSE \E i \in 1 .. Len(annotation.args) \cup {0} :
             val.t = (IF annotation.k = "union" /\ i > 0 THEN annotation.args[i].k
                      ELSE annotation.k)

\* a required field must be sent; a sent value must conform; a default is
\* not validated
Validates(model, payload) ==
    \A i \in 1 .. Len(model.fields) :
        IF HasKey(payload, model.fields[i].name)
        THEN Conforms(model.fields[i].annotation, DictGet(payload, model.fields[i].name))
        ELSE ~model.fields[i].required

\* item_payload.model_dump(): every declared field in declaration order, the
\* default None where the payload had no value; other keys are dropped
model_dump(model, payload) ==
    [i \in 1 .. Len(model.fields) |->
        Entry(model.fields[i].name, DictGet(payload, model.fields[i].name))]

-----------------------------------------------------------------------------
(* The item handlers, server.py 17-26, 115-239 *)

\* what a handler leaves: the response, the resource's list, Faker's generator
Answer(status_code, body, items, shared) ==
    [status_code |-> status_code, body |-> body, items |-> items, shared |-> shared]

HTTP_200_OK == 200
HTTP_201_CREATED == 201
HTTP_204_NO_CONTENT == 204
HTTP_404_NOT_FOUND == 404
HTTP_422_UNPROCESSABLE == 422

SetMax(S) == CHOOSE m \in S : \A n \in S : n <= m
First(S) == CHOOSE i \in S : \A j \in S : i <= j

\* lines 17-26
_get_next_id(items, id_field_name) ==
    IF Len(items) = 0
    THEN 1
    ELSE SetMax({0} \cup {DictGet(items[i], id_field_name).n : i \in
                    {j \in 1 .. Len(items) :
                        /\ DictGet(items[j], id_field_name).t \in {"int", "bool"}
                        /\ DictGet(items[j], id_field_name).n > 0}}) + 1

\* lines 118-123, 173-177, 211-215
IdFieldName(model) ==
    IF HasField(model, "id") THEN Some("id")
    ELSE IF HasField(model, "uuid") THEN Some("uuid")
    ELSE None

\* lines 126-133: items whose identifier is None are passed over
FoundById(items, id_field_name, item_id_str) ==
    IF id_field_name = None
    THEN {}
    ELSE {i \in 1 .. Len(items) :
            /\ DictGet(items[i], id_field_name[1]) # NoneV
            /\ PyStr(DictGet(items[i], id_field_name[1])) = item_id_str}

\* lines 180-184, 218-222: str() of whatever the item holds
MatchedById(items, id_field_name, item_id_str) ==
    IF id_field_name = None
    THEN {}
    ELSE {i \in 1 .. Len(items) : PyStr(DictGet(items[i], id_field_name[1])) = item_id_str}

\* lines 138-143, 187-192, 225-230: the position counted from 1, or None
ByIndex(items, index) ==
    IF index # None /\ 0 <= index[1] /\ index[1] < Len(items)
    THEN Some(index[1] + 1)
    ELSE None

\* lines 115-148
get_item(model, items, item_id_str) ==
    IF FoundById(items, IdFieldName(model), item_id_str) # {}
    THEN <<items[First(FoundById(items, IdFieldName(model), item_id_str))]>>
    ELSE IF ByIndex(items, PyInt(item_id_str)) # None
    THEN <<items[ByIndex(items, PyInt(item_id_str))[1]]>>
    ELSE None

\* lines 179-192, 217-230
IndexToChange(model, items, item_id_str) ==
    IF MatchedById(items, IdFieldName(model), item_id_str) # {}
    THEN Some(First(MatchedById(items, IdFieldName(model), item_id_str)))
    ELSE ByIndex(items, PyInt(item_id_str))

\* lines 157-165
WithIdentifier(model, items, item_dict, shared) ==
    IF HasField(model, "id") /\ FieldOf(model, "id").annotation = IntT
    THEN IF DictGet(item_dict, "id") = NoneV
         THEN Res(DictPut(item_dict, "id", IntV(_get_next_id(items, "id"))), shared)
         ELSE IF /\ HasField(model, "uuid")
                 /\ FieldOf(model, "uuid").annotation = UuidT
                 /\ DictGet(item_dict, "uuid") = NoneV
         THEN Res(DictPut(item_dict, "uuid",
                          CharsV(PyStr(GenUuid(GenState(0, shared, None, 0, 0)).val))),
                  GenUuid(GenState(0, shared, None, 0, 0)).st.shared)
         ELSE Res(item_dict, shared)
    ELSE Res(item_dict, shared)

\* a bug: the new item is put in front of the list
Created_InFront(items, made) ==
    Answer(HTTP_201_CREATED, <<made.val>>, <<made.val>> \o items, made.st)

\* lines 167-168
Created(items, made) ==
    Answer(HTTP_201_CREATED, <<made.val>>, Append(items, made.val), made.st)

\* lines 150-168
create_item(model, items, item_payload, shared) ==
    IF ~Validates(model, item_payload)
    THEN Answer(HTTP_422_UNPROCESSABLE, <<>>, items, shared)
    ELSE Created(items, WithIdentifier(model, items, model_dump(model, item_payload), shared))

\* a bug: the payload's identifier replaces the original
KeepIdentifier_PayloadWins(id_field_name, old_item, updated_item_dict) == updated_item_dict

\* lines 200-203
KeepIdentifier(id_field_name, old_item, updated_item_dict) ==
    IF id_field_name # None /\ DictGet(old_item, id_field_name[1]) # NoneV
    THEN DictPut(updated_item_dict, id_field_name[1], DictGet(old_item, id_field_name[1]))
    ELSE updated_item_dict

\* a bug: the item is taken out of its place and put back at the end
Updated_MovedToEnd(items, item_to_update_index, updated_item_dict, shared) ==
    Answer(HTTP_200_OK, <<updated_item_dict>>,
        Append(SubSeq(items, 1, item_to_update_index - 1)
                   \o SubSeq(items, item_to_update_index + 1, Len(items)),
               updated_item_dict),
        shared)

\* items[item_to_update_index] = updated_item_dict, lines 205-206
Updated(items, item_to_update_index, updated_item_dict, shared) ==
    Answer(HTTP_200_OK, <<updated_item_dict>>,
        [items EXCEPT ![item_to_update_index] = updated_item_dict], shared)

\* lines 170-206
update_item(model, items, item_id_str, item_payload, shared) ==
    IF ~Validates(model, item_payload)
    THEN Answer(HTTP_422_UNPROCESSABLE, <<>>, items, shared)
    ELSE IF IndexToChange(model, items, item_id_str) = None
    THEN Answer(HTTP_404_NOT_FOUND, <<>>, items, shared)
    ELSE Updated(items, IndexToChange(model, items, item_id_str)[1],
                 KeepIdentifier(IdFieldName(model),
                                items[IndexToChange(model, items, item_id_str)[1]],
                                model_dump(model, item_payload)),
                 shared)

\* a bug: the last item is removed, whichever was resolved
Pop_Last(items, index) == SubSeq(items, 1, Len(items) - 1)

\* items.pop(index)
Pop(items, index) == SubSeq(items, 1, index - 1) \o SubSeq(items, index + 1, Len(items))

\* lines 208-239
delete_item(model, items, item_id_str, shared) ==
    IF IndexToChange(model, items, item_id_str) = None
    THEN Answer(HTTP_404_NOT_FOUND, <<>>, items, shared)
    ELSE Answer(HTTP_204_NO_CONTENT, <<>>,
             Pop(items, IndexToChange(model, items, item_id_str)[1]), shared)

-----------------------------------------------------------------------------
(* The served schemas and the requests sent to the server *)

\* the fields of SimpleTestModel that the handlers read
UserModel ==
    ModelT("UserModel",
           <<Plain("id", IntT),
             Plain("is_active", BoolT),
             Plain("rating", UnionT(<<FloatT, NoneT>>))>>)

\* id: int = None
AutoIdModel ==
    ModelT("AutoIdModel",
           <<Defaulted("id", IntT),
             Plain("is_active", BoolT)>>)

\* id: int, uuid: UUID = None
StampedModel ==
    ModelT("StampedModel",
           <<Plain("id", IntT),
             Defaulted("uuid", UuidT)>>)

\* id: int | None = None
OptionalIdModel ==
    ModelT("OptionalIdModel",
           <<Defaulted("id", UnionT(<<IntT, NoneT>>)),
             Plain("is_active", BoolT)>>)

\* no id: the uuid identifies
TokenModel ==
    ModelT("TokenModel",
           <<Defaulted("uuid", UnionT(<<UuidT, NoneT>>)),
             Plain("is_active", BoolT)>>)

\* neither id nor uuid
NoteModel ==
    ModelT("NoteModel",
           <<Defaulted("note", UnionT(<<StrT, NoneT>>)),
             Plain("is_active", BoolT)>>)

ServedModels == {UserModel, AutoIdModel, StampedModel, OptionalIdModel, TokenModel, NoteModel}

Text_true == <<"t", "r", "u", "e">>
Text_TRUE == <<"T", "R", "U", "E">>
Text_yes == <<"y", "e", "s">>
Text_on == <<"o", "n">>
Text_false == <<"f", "a", "l", "s", "e">>
Text_Off == <<"O", "f", "f">>
Text_no == <<"n", "o">>
Text_null == <<"n", "u", "l", "l">>
Text_None == <<"N", "o", "n", "e">>
Text_none == <<"n", "o", "n", "e">>

\* JSON bodies sent with POST and PUT
Body(id_entries, is_active) == id_entries \o <<Entry("is_active", BoolV(is_active))>>
UuidV(id) == V("uuid", 0, id, "", <<>>)

\* for each schema: two bodies that validate, a third that validates, and one
\* that leaves out a required field
Payloads(model) ==
    CASE model = UserModel ->
             <<Body(<<Entry("id", IntV(1))>>, 1) \o <<Entry("rating", NoneV)>>,
               Body(<<Entry("id", IntV(0))>>, 0) \o <<Entry("rating", FloatV(Micro + Micro \div 2))>>,
               Body(<<Entry("id", IntV(1))>>, 0) \o <<Entry("rating", NoneV)>>,
               Body(<<>>, 1) \o <<Entry("rating", NoneV)>>>>
      [] model = AutoIdModel ->
             <<Body(<<>>, 1),
               Body(<<Entry("id", IntV(-2))>>, 1),
               Body(<<Entry("id", IntV(1))>>, 0),
               <<Entry("id", IntV(1))>>>>
      [] model = StampedModel ->
             <<<<Entry("id", IntV(1))>>,
               <<Entry("id", IntV(0)), Entry("uuid", UuidV(1))>>,
               <<Entry("id", IntV(1))>>,
               <<Entry("uuid", UuidV(1))>>>>
      [] model = OptionalIdModel ->
             <<Body(<<>>, 1),
               Body(<<Entry("id", IntV(1))>>, 0),
               Body(<<Entry("id", IntV(0))>>, 1),
               <<Entry("id", IntV(1))>>>>
      [] model = TokenModel ->
             <<Body(<<>>, 1),
               Body(<<Entry("uuid", UuidV(1))>>, 0),
               Body(<<Entry("uuid", UuidV(2)), Entry("id", IntV(1))>>, 1),
               <<Entry("uuid", UuidV(1))>>>>
      [] OTHER ->
             <<Body(<<>>, 1),
               Body(<<Entry("note", CharsV(<<>>))>>, 0),
               Body(<<Entry("note", CharsV(Text_null))>>, 1),
               <<Entry("note", NoneV)>>>>

CreatePayloads(model) == {Payloads(model)[i] : i \in 1 .. 4}
UpdatePayloads(model) == {Payloads(model)[i] : i \in 1 .. 2}

\* path identifiers: those the items carry, the first position and the
\* position past the last, and texts that are neither
IdentifiersOf(items, name) == {PyStr(DictGet(items[i], name)) : i \in 1 .. Len(items)}
ItemIds(items) ==
    IdentifiersOf(items, "id") \cup IdentifiersOf(items, "uuid")
    \cup {<<"0">>, NatText(Len(items)), <<" ", "1">>, <<"-", "1">>, <<"x">>}

Param(k, val) == [k |-> k, val |-> val]

BoolTexts ==
    {Text_true, Text_TRUE, <<"1">>, Text_yes, Text_on,
     Text_false, <<"0">>, Text_no, Text_Off,
     <<"x">>, <<>>, Text_None}

\* query strings: a mapping, one value for a name
Queries ==
    {<<>>}
    \cup {<<Param("is_active", val)>> : val \in BoolTexts}
    \cup {<<Param(k, val)>> :
            k \in {"id", "rating", "note"},
            val \in {Text_null, Text_None, <<>>, <<"1">>, <<"1", ".", "5">>}}
    \cup {<<Param("page", <<"2">>)>>, <<Param("uuid", <<"u", "-", "1">>)>>}
    \cup {<<Param("is_active", val), Param("page", <<"2">>)>> : val \in {Text_true, Text_false}}
    \cup {<<Param("page", <<"2">>), Param("is_active", val), Param("id", <<"1">>)>> :
            val \in {Text_true, Text_false}}
    \cup {<<Param("is_active", val), Param(k, Text_none)>> :
            val \in {Text_true, Text_false}, k \in {"id", "rating", "note"}}

-----------------------------------------------------------------------------
(* The server as a state machine: run_server starts it, then requests arrive
   one at a time *)

Request(op, item_id_str, sent, answer, before) ==
    [op |-> op, item_id_str |-> item_id_str, sent |-> sent,
     status_code |-> answer.status_code, body |-> answer.body, before |-> before]

\* lines 264-274: `count` instances from the main Faker instance
RECURSIVE data_instances(_, _, _, _)
data_instances(model, count, made, g) ==
    IF count = 0
    THEN Out(made, g)
    ELSE AndThen(generate_fake_data_for_model(model, None, None, Some(0), g),
                 data_instances(model, count - 1,
                                Append(made, generate_fake_data_for_model(model, None, None, Some(0), g).data),
                                generate_fake_data_for_model(model, None, None, Some(0), g).st))

\* lines 260-262
ServerState(seed, main_faker_instance) ==
    GenState(IF seed # None THEN SeedState(seed[1]) ELSE rnd,
             main_faker_instance.shared, main_faker_instance.inst,
             main_faker_instance.loc, clock)

Started(count, seed, out) ==
    /\ store' = out.data
    /\ rnd' = out.st.rnd
    /\ fakerShared' = out.st.shared
    /\ faker_instance_for_new_items' = Some(out.st.inst)
    /\ reply' = Request("run_server", <<>>, <<>>, Answer(0, <<>>, out.data, 0), <<>>)
    /\ UNCHANGED <<clock, model_class, last, prev, inflight, fake_data_list>>

\* lines 247-288 and 29-45
run_server(count, seed) ==
    /\ reply = None
    /\ Started(count, seed,
               data_instances(model_class, count, <<>>,
                              ServerState(seed, get_faker_instance(None, seed, fakerShared))))

Serving == reply # None

\* the state of faker_instance_for_new_items: its own generator when it was
\* seeded, else the shared one
NewItemsFaker == IF faker_instance_for_new_items[1] = None
                 THEN fakerShared ELSE faker_instance_for_new_items[1][1]

\* a handler has run: the list and the generator are as it left them
Responded(op, item_id_str, sent, answer) ==
    /\ store' = answer.items
    /\ reply' = Request(op, item_id_str, sent, answer, store)
    /\ IF faker_instance_for_new_items[1] = None
       THEN fakerShared' = answer.shared /\ UNCHANGED faker_instance_for_new_items
       ELSE faker_instance_for_new_items' = Some(Some(answer.shared)) /\ UNCHANGED fakerShared
    /\ UNCHANGED <<rnd, clock, model_class, last, prev, fake_data_list>>

\* a request handled as it arrives
Answered(op, item_id_str, sent, answer) ==
    /\ Responded(op, item_id_str, sent, answer)
    /\ UNCHANGED inflight

GetAll(query_params) ==
    /\ Serving
    /\ Answered("get_all_items", <<>>, query_params,
                Answer(HTTP_200_OK, get_all_items(model_class, store, query_params),
                       store, NewItemsFaker))

GetItem(item_id_str) ==
    /\ Serving
    /\ Answered("get_item", item_id_str, <<>>,
                Answer(IF get_item(model_class, store, item_id_str) = None
                       THEN HTTP_404_NOT_FOUND ELSE HTTP_200_OK,
                       get_item(model_class, store, item_id_str), store, NewItemsFaker))

\* an identifier is assigned by the handler, lines 157-159
AssignsId(model, item_payload) ==
    /\ Validates(model, item_payload)
    /\ HasField(model, "id")
    /\ FieldOf(model, "id").annotation = IntT
    /\ DictGet(model_dump(model, item_payload), "id") = NoneV

\* a uuid is drawn by the handler, lines 160-165
DrawsUuid(model, item_payload) ==
    /\ Validates(model, item_payload)
    /\ HasField(model, "id")
    /\ FieldOf(model, "id").annotation = IntT
    /\ DictGet(model_dump(model, item_payload), "id") # NoneV
    /\ HasField(model, "uuid")
    /\ FieldOf(model, "uuid").annotation = UuidT
    /\ DictGet(model_dump(model, item_payload), "uuid") = NoneV

\* the list holds at most MaxItems items, assigned identifiers stay within
\* MaxId, and the generator is drawn from at its first MaxDrawn positions
CreateItem(item_payload) ==
    /\ Serving
    /\ Len(store) < MaxItems
    /\ AssignsId(model_class, item_payload) => _get_next_id(store, "id") <= MaxId
    /\ DrawsUuid(model_class, item_payload) => NewItemsFaker < MaxDrawn
    /\ Answered("create_item", <<>>, item_payload,
                create_item(model_class, store, item_payload, NewItemsFaker))

UpdateItem(item_id_str, item_payload) ==
    /\ Serving
    /\ Answered("update_item", item_id_str, item_payload,
                update_item(model_class, store, item_id_str, item_payload, NewItemsFaker))

DeleteItem(item_id_str) ==
    /\ Serving
    /\ Answered("delete_item", item_id_str, <<>>,
                delete_item(model_class, store, item_id_str, NewItemsFaker))

\* the command lines the server is started with
ServerArgs == {[count |-> 1, seed |-> None], [count |-> 2, seed |-> Some(777)]}

InitStore ==
    /\ InitIn(ServedModels, {0})
    /\ rnd = 0

RunServer == \E args \in ServerArgs : run_server(args.count, args.seed)
GetAllRequest == \E query_params \in Queries : GetAll(query_params)
GetItemRequest == \E item_id_str \in ItemIds(store) : GetItem(item_id_str)
CreateItemRequest == \E item_payload \in CreatePayloads(model_class) : CreateItem(item_payload)
UpdateItemRequest ==
    \E item_id_str \in ItemIds(store), item_payload \in UpdatePayloads(model_class) :
        UpdateItem(item_id_str, item_payload)
DeleteItemRequest == \E item_id_str \in ItemIds(store) : DeleteItem(item_id_str)

\* the item routes
NextStore ==
    \/ RunServer
    \/ GetItemRequest
    \/ CreateItemRequest
    \/ UpdateItemRequest
    \/ DeleteItemRequest
SpecStore == InitStore /\ [][NextStore]_vars

\* the collection route, over the lists that creations build
NextQuery ==
    \/ RunServer
    \/ CreateItemRequest
    \/ GetAllRequest
SpecQuery == InitStore /\ [][NextQuery]_vars

\* no two items of the list carry the same integer id
IntegerIdsDistinct(items) ==
    \A i, j \in 1 .. Len(items) :
        /\ i # j
        /\ DictGet(items[i], "id").t = "int"
        /\ DictGet(items[j], "id").t = "int"
        => DictGet(items[i], "id") # DictGet(items[j], "id")

\* every item carries an integer id, and no two the same
DistinctIntegerIds(items) ==
    /\ \A i \in 1 .. Len(items) : DictGet(items[i], "id").t = "int"
    /\ IntegerIdsDistinct(items)

\* the server started on generated items that carry distinct integer ids,
\* then under creates whose payload has no id, updates and deletes
IdModels == {AutoIdModel, OptionalIdModel}
InitIds == InitIn(IdModels, {0})
StartDistinct == RunServer /\ DistinctIntegerIds(store')
CreateOmittingId ==
    \E item_payload \in {p \in CreatePayloads(model_class) : ~HasKey(p, "id")} :
        CreateItem(item_payload)
NextIds ==
    \/ StartDistinct
    \/ CreateOmittingId
    \/ UpdateItemRequest
    \/ DeleteItemRequest
SpecIds == InitIds /\ [][NextIds]_vars

\* the five routes of a resource together
FrameModels == {UserModel, OptionalIdModel}
FrameQueries ==
    {<<>>, <<Param("is_active", Text_true)>>, <<Param("id", <<"1">>)>>}
InitFrame == InitStore /\ model_class \in FrameModels
GetSomeRequest == \E query_params \in FrameQueries : GetAll(query_params)
NextFrame ==
    \/ RunServer
    \/ GetSomeRequest
    \/ GetItemRequest
    \/ CreateItemRequest
    \/ UpdateItemRequest
    \/ DeleteItemRequest
SpecFrame == InitFrame /\ [][NextFrame]_vars

-----------------------------------------------------------------------------
(* The generate command, cli.py 60-108, next to the start of the server *)

RECURSIVE generate_all(_, _, _, _, _)

\* fake_data_list.append(single_fake_data)
Collected(model, seed, times, made, out) ==
    AndThen(out, generate_all(model, seed, times, Append(made, out.data), out.st))

\* cli.py 84-91: for _ in range(count), every call with the seed of the
\* command; the call that makes instance i reads the clock at times[i]
generate_all(model, seed, times, made, g) ==
    IF Len(made) = Len(times)
    THEN Out(made, g)
    ELSE Collected(model, seed, times, made,
                   generate_fake_data_for_model(model, None, seed, None,
                       [g EXCEPT !.now = times[Len(made) + 1]]))

\* the wall clock does not run backwards during the loop
ClockReadings(count) ==
    {times \in [1 .. count -> clock .. MaxClock] :
        \A i \in 1 .. count - 1 : times[i] <= times[i + 1]}

Generated(seed, times, out) ==
    /\ fake_data_list' = out.data
    /\ rnd' = out.st.rnd
    /\ fakerShared' = out.st.shared
    /\ clock' = times[Len(times)]
    /\ last' = Some(Call(None, seed, times[Len(times)], out.data[Len(times)]))
    /\ prev' = IF Len(times) > 1
               THEN Some(Call(None, seed, times[Len(times) - 1], out.data[Len(times) - 1]))
               ELSE last
    /\ UNCHANGED <<model_class, store, reply, faker_instance_for_new_items, inflight>>

\* one run of the command
generate(count, seed) ==
    /\ fake_data_list = <<>>
    /\ reply = None
    /\ \E times \in ClockReadings(count) :
           Generated(seed, times,
                     generate_all(model_class, seed, times, <<>>,
                                  GenState(rnd, fakerShared, None, 0, clock)))

GenerateArgs ==
    {[count |-> 1, seed |-> Some(0)], [count |-> 2, seed |-> None],
     [count |-> 2, seed |-> Some(777)], [count |-> 3, seed |-> Some(0)]}

GenerateCommand == \E args \in GenerateArgs : generate(args.count, args.seed)

\* the serve command of the same program; it is not run after generate
ServeCommand == fake_data_list = <<>> /\ RunServer

NextCommand == GenerateCommand \/ ServeCommand \/ Tick
SpecCommand == Init /\ [][NextCommand]_vars

-----------------------------------------------------------------------------
(* Requests in flight.  Each handler is a coroutine without an await,
   server.py 151-168, 171-206, 209-239: once the event loop has started it,
   it runs to its return before any other handler runs.  Requests are
   accepted in any number and their handlers run in any order. *)

InFlight(op, item_id_str, sent) == [op |-> op, item_id_str |-> item_id_str, sent |-> sent]

\* the mutations clients send together
Mutations(model) ==
    {InFlight("create_item", <<>>, Payloads(model)[i]) : i \in {1, 3}}
    \cup {InFlight("update_item", item_id_str, Payloads(model)[2]) : item_id_str \in {<<"0">>, <<"1">>}}
    \cup {InFlight("delete_item", item_id_str, <<>>) : item_id_str \in {<<"0">>, <<"1">>}}

\* a bug: the handler works on the list as it was before the previous handler ran
Seen_Stale(request) == reply.before

\* items = IN_MEMORY_DATA[resource_name]: the list as it is when the handler runs
Seen(request) == store

\* the handler of the route, run on the list it sees
Handled(request, items) ==
    CASE request.op = "create_item" ->
             create_item(model_class, items, request.sent, NewItemsFaker)
      [] request.op = "update_item" ->
             update_item(model_class, items, request.item_id_str, request.sent, NewItemsFaker)
      [] OTHER ->
             delete_item(model_class, items, request.item_id_str, NewItemsFaker)

\* the server accepts a request
Accept(request) ==
    /\ Serving
    /\ Len(inflight) < MaxInFlight
    /\ inflight' = Append(inflight, request)
    /\ UNCHANGED <<rnd, fakerShared, clock, model_class, last, prev, store, reply,
                   faker_instance_for_new_items, fake_data_list>>

\* the event loop runs the handler of one accepted request, whichever
Handle(i) ==
    /\ Serving
    /\ inflight[i].op = "create_item" =>
           /\ Len(store) < MaxItems
           /\ AssignsId(model_class, inflight[i].sent) => _get_next_id(store, "id") <= MaxId
    /\ Responded(inflight[i].op, inflight[i].item_id_str, inflight[i].sent,
                 Handled(inflight[i], Seen(inflight[i])))
    /\ inflight' = SubSeq(inflight, 1, i - 1) \o SubSeq(inflight, i + 1, Len(inflight))

ConcurrentModels == {AutoIdModel, TokenModel}

InitConcurrent == InitStore /\ model_class \in ConcurrentModels
AcceptRequest == \E request \in Mutations(model_class) : Accept(request)
HandleRequest == \E i \in 1 .. Len(inflight) : Handle(i)

NextConcurrent ==
    \/ RunServer
    \/ AcceptRequest
    \/ HandleRequest
SpecConcurrent == InitConcurrent /\ [][NextConcurrent]_vars

-----------------------------------------------------------------------------
(* What the claims speak of *)

Called == last # None
LastData == last[1].data
FieldCons(f) == f.metadata

\* the value recorded under key k, None when the key is missing
ValueAt(data, k) ==
    IF \E i \in 1 .. Len(data) : data[i].k = k
    THEN Some(data[CHOOSE i \in 1 .. Len(data) : data[i].k = k].val)
    ELSE None

\* the field of a one-field model and the value generated for it
TheField == model_class.fields[1]
TheValue == LastData[1].val

\* a field generated by type: no example is declared and no name matches
ByTypeOnly(f) == Len(f.examples) = 0 /\ f.name \notin FAKER_FIELD_NAME_MAP

HasLow(c) == c.gt # None \/ c.ge # None
HasHigh(c) == c.lt # None \/ c.le # None
\* the least and the greatest integer the declared bounds allow
Low(c) ==
    IF c.gt # None /\ c.ge # None THEN Max(c.gt[1] + 1, c.ge[1])
    ELSE IF c.gt # None THEN c.gt[1] + 1 ELSE c.ge[1]
High(c) ==
    IF c.lt # None /\ c.le # None THEN Min(c.lt[1] - 1, c.le[1])
    ELSE IF c.lt # None THEN c.lt[1] - 1 ELSE c.le[1]

SatisfiesBounds(c, v) ==
    /\ c.gt # None => v > c.gt[1]
    /\ c.ge # None => v >= c.ge[1]
    /\ c.lt # None => v < c.lt[1]
    /\ c.le # None => v <= c.le[1]

HasMultipleIn(m, lo, hi) == \E x \in lo .. hi : x % m = 0

-----------------------------------------------------------------------------
(* C3 *)

AdmitsInteger(c) == HasLow(c) /\ HasHigh(c) => Low(c) <= High(c)

DeclaredRangeHasMultiple(c) ==
    HasLow(c) /\ HasHigh(c) => HasMultipleIn(c.multiple_of[1], Low(c), High(c))

\* C3 as claimed: an int generated by type satisfies every declared bound
\* whenever the declared bounds admit an integer, and is divisible by
\* multiple_of when the range the declared bounds leave holds a multiple.
C3_IntBoundsAsClaimed ==
    Called /\ TheField.annotation.k = "int" /\ AdmitsInteger(FieldCons(TheField)) =>
        LET c == FieldCons(TheField)
        IN  /\ TheValue.t = "int"
            /\ SatisfiesBounds(c, TheValue.n)
            /\ c.multiple_of # None /\ DeclaredRangeHasMultiple(c)
                   => TheValue.n % c.multiple_of[1] = 0

\* the least value of the effective range: the declared bounds cut to the
\* default range 0..1000 from below
EffLow(c) == IF HasLow(c) THEN Max(Low(c), 0) ELSE 0
\* its greatest value; a range left empty collapses onto its least value
EffHigh(c) ==
    LET hi == IF HasHigh(c) THEN Min(High(c), 1000) ELSE 1000
    IN  IF EffLow(c) > hi THEN EffLow(c) ELSE hi

AdmitsNonNegative(c) == HasHigh(c) => EffLow(c) <= High(c)

\* C3 amended: an int generated by type satisfies every declared bound
\* whenever the declared bounds admit an integer that is not negative; it lies
\* in the effective range (the declared bounds cut to 0..1000, collapsed onto
\* its low end when empty), and when a positive multiple_of is declared and
\* the effective range holds a multiple of it, the value is divisible by it.
C3_IntBounds ==
    Called /\ TheField.annotation.k = "int" /\ AdmitsNonNegative(FieldCons(TheField)) =>
        LET c == FieldCons(TheField)
        IN  /\ TheValue.t = "int"
            /\ SatisfiesBounds(c, TheValue.n)
            /\ TheValue.n \in EffLow(c) .. EffHigh(c)
            /\ c.multiple_of # None /\ HasMultipleIn(c.multiple_of[1], EffLow(c), EffHigh(c))
                   => TheValue.n % c.multiple_of[1] = 0

\* gt = 4, le = 7, multiple_of = 3 has generated 6
C3_Witness ==
    /\ Called
    /\ FieldCons(TheField) = Cons(Some(4), None, None, Some(7), Some(3))
    /\ TheValue = IntV(6)

-----------------------------------------------------------------------------
(* C4 *)

\* C4: a float generated by type is, after rounding to 2 decimals, strictly
\* above a declared gt, strictly below a declared lt, within declared ge and
\* le, and a multiple of a declared multiple_of; so for gt = 1.0, le = 10.0,
\* multiple_of = 2.5 it lies in (1.0, 10.0] and is a multiple of 2.5.
C4_FloatBounds ==
    Called /\ TheField.annotation.k = "float" =>
        LET c == FieldCons(TheField)
        IN  /\ TheValue.t = "float"
            /\ SatisfiesBounds(c, TheValue.n)
            /\ c.multiple_of # None => TheValue.n % c.multiple_of[1] = 0

-----------------------------------------------------------------------------
(* C5 *)

LengthWithin(c, n) ==
    /\ c.min_length # None => n >= c.min_length[1]
    /\ c.max_length # None => n <= c.max_length[1]

NotContradictory(c) ==
    c.min_length # None /\ c.max_length # None => c.min_length[1] <= c.max_length[1]

NoLengthDeclared(c) == c.min_length = None /\ c.max_length = None

\* C5 as claimed: a str generated by type has at least min_length and at most
\* max_length characters whenever only one of them is declared or
\* min_length <= max_length; with neither declared it has 1 to 50 characters.
C5_StrLengthAsClaimed ==
    Called /\ TheField.annotation.k = "str" /\ NotContradictory(FieldCons(TheField)) =>
        /\ TheValue.t = "str"
        /\ LengthWithin(FieldCons(TheField), TheValue.n)
        /\ NoLengthDeclared(FieldCons(TheField)) => TheValue.n \in 1 .. 50

\* min_length does not exceed max_length, an undeclared max_length counting as 50
MinFitsMax(c, default_max) ==
    c.min_length # None =>
        c.min_length[1] <= (IF c.max_length # None THEN c.max_length[1] ELSE default_max)

\* C5 amended: a str generated by type has at least min_length and at most
\* max_length characters whenever min_length is not declared or does not
\* exceed max_length, an undeclared max_length counting as the default 50;
\* with neither declared it has 1 to 50 characters.
C5_StrLength ==
    Called /\ TheField.annotation.k = "str" /\ MinFitsMax(FieldCons(TheField), 50) =>
        /\ TheValue.t = "str"
        /\ LengthWithin(FieldCons(TheField), TheValue.n)
        /\ NoLengthDeclared(FieldCons(TheField)) => TheValue.n \in 1 .. 50

\* min_length = 3, max_length = 7: a text of one character was padded to 3
C5_Witness ==
    /\ Called
    /\ FieldCons(TheField) = Lens(Some(3), Some(7))
    /\ TheValue.t = "str" /\ TheValue.n = 3 /\ TheValue.id >= RndMod * RndMod

-----------------------------------------------------------------------------
(* C6 *)

\* C6 as claimed: a list generated by type has at least min_length and at
\* most max_length items whenever only one of them is declared or
\* min_length <= max_length; with neither declared it has 1 to 3 items.
C6_ListLengthAsClaimed ==
    Called /\ TheField.annotation.k = "list" /\ NotContradictory(FieldCons(TheField)) =>
        /\ TheValue.t = "list"
        /\ LengthWithin(FieldCons(TheField), Len(TheValue.items))
        /\ NoLengthDeclared(FieldCons(TheField)) => Len(TheValue.items) \in 1 .. 3

\* max_length is not below min_length, an undeclared min_length counting as 1
MaxFitsMin(c, default_min) ==
    c.max_length # None =>
        (IF c.min_length # None THEN c.min_length[1] ELSE default_min) <= c.max_length[1]

\* C6 amended: a list generated by type has at least min_length and at most
\* max_length items whenever max_length is not declared or is not below
\* min_length, an undeclared min_length counting as the default 1; with
\* neither declared it has 1 to 3 items.
C6_ListLength ==
    Called /\ TheField.annotation.k = "list" /\ MaxFitsMin(FieldCons(TheField), 1) =>
        /\ TheValue.t = "list"
        /\ LengthWithin(FieldCons(TheField), Len(TheValue.items))
        /\ NoLengthDeclared(FieldCons(TheField)) => Len(TheValue.items) \in 1 .. 3

\* min_length = 2 alone has generated a list of 2 items
C6_Witness ==
    /\ Called
    /\ FieldCons(TheField) = Lens(Some(2), None)
    /\ TheValue.t = "list" /\ Len(TheValue.items) = 2

-----------------------------------------------------------------------------
(* C1 *)

\* C1: two calls with the same schema, the same integer seed and the same
\* locale return equal instances, whatever the earlier call left behind.
C1_Deterministic ==
    /\ prev # None
    /\ prev[1].seed # None
    /\ prev[1].seed = last[1].seed
    /\ prev[1].faker_locale = last[1].faker_locale
    => prev[1].data = last[1].data

-----------------------------------------------------------------------------
(* C2 *)

FieldNames(model) == [i \in 1 .. Len(model.fields) |-> model.fields[i].name]

Alternatives(type) ==
    IF type.k = "union" THEN {type.args[i] : i \in 1 .. Len(type.args)} ELSE {type}

RECURSIVE WellKeyed(_, _)
RECURSIVE ValueKeyed(_, _)

\* every instance found in the value has the keys of its schema
ValueKeyed(val, type) ==
    CASE val.t = "model" ->
            \E a \in Alternatives(type) : a.k = "model" /\ WellKeyed(val.items, a)
      [] val.t = "list" ->
            \A a \in Alternatives(type) : a.k = "list" /\ Len(a.args) > 0 =>
                \A i \in 1 .. Len(val.items) : ValueKeyed(val.items[i], a.args[1])
      [] val.t = "dict" ->
            \A a \in Alternatives(type) : a.k = "dict" /\ Len(a.args) = 2 =>
                \A i \in 1 .. Len(val.items) : ValueKeyed(val.items[i].val, a.args[2])
      [] OTHER -> TRUE

WellKeyed(data, model) ==
    /\ Keys(data) = FieldNames(model)
    /\ \A i \in 1 .. Len(data) : ValueKeyed(data[i].val, model.fields[i].annotation)

\* C2: the keys of a generated instance are exactly the declared field names,
\* in declaration order, a nulled optional field included; so are the keys of
\* every nested instance.
C2_FieldCompleteness == Called => WellKeyed(LastData, model_class)

\* an instance of ComplexTestModel whose optional `notes` is null, whose
\* nested instance holds a nulled optional field of its own, and whose list
\* holds a nested instance
C2_Witness ==
    /\ Called
    /\ model_class.name = "ComplexTestModel"
    /\ ValueAt(LastData, "notes") = Some(NoneV)
    /\ ValueAt(ValueAt(LastData, "user_details")[1].items, "rating") = Some(NoneV)
    /\ ValueAt(LastData, "items")[1].items[1].t = "model"

-----------------------------------------------------------------------------
(* C7 *)

TopFields == {model_class.fields[i] : i \in 1 .. Len(model_class.fields)}

MemberValues(type) == {type.vals[i].val : i \in 1 .. Len(type.vals)}

\* a generator state before any call of the process
Fresh(r, shared) == GenState(r, shared, None, 0, 0)

\* C7: a Literal field's value is one of the allowed values, an Enum field's
\* value is the underlying value of a declared member, and every allowed
\* value / member value is generated from some state of the random source.
C7_LiteralEnum ==
    \A f \in TopFields :
        f.annotation.k \in {"literal", "enum"} /\ ByTypeOnly(f) =>
            /\ Called => ValueAt(LastData, f.name)[1] \in MemberValues(f.annotation)
            /\ \A v \in MemberValues(f.annotation) :
                   \E r \in RndStates :
                       AssembleField(f, <<>>, Fresh(r, fakerShared)).data[1].val = v

\* the last literal and the last member's value have been generated
C7_Witness ==
    /\ Called
    /\ ValueAt(LastData, "direction") = Some(TextV("west"))
    /\ ValueAt(LastData, "status") = Some(TextV("pending"))

-----------------------------------------------------------------------------
(* C8 *)

\* the tag of the values the synthesizer makes from a type
TagOf(type) ==
    CASE type.k = "NoneType" -> "none"
      [] type.k \in {"other", "Any", "literal", "enum"} -> "str"
      [] OTHER -> type.k

MultiUnion(f) == f.annotation.k = "union" /\ Len(ActualTypeArgs(f.annotation)) >= 2

\* C8: for a union of two or more non-null alternatives, with or without a
\* null alternative, every value is made from a declared alternative and
\* every declared alternative is chosen from some state of the random source.
C8_UnionAlternatives ==
    \A f \in TopFields :
        MultiUnion(f) /\ ByTypeOnly(f) =>
            /\ Called =>
                   \E a \in Alternatives(f.annotation) :
                       ValueAt(LastData, f.name)[1].t = TagOf(a)
            /\ \A a \in Alternatives(f.annotation) :
                   \E r \in RndStates :
                       AssembleField(f, <<>>, Fresh(r, fakerShared)).data[1].val.t = TagOf(a)

-----------------------------------------------------------------------------
(* C9 *)

SoleOptional(f) == IsOptional(f.annotation) /\ Len(ActualTypeArgs(f.annotation)) = 1

\* a value of the narrowed type under the constraints of the field
OfNarrowedType(v, inner, c) ==
    /\ v.t = TagOf(inner)
    /\ inner.k = "int" => v.n \in EffLow(c) .. EffHigh(c)
    /\ inner.k = "float" => v.n \in 0 .. 1000 * Micro

\* C9: a top-level Optional field is null or a value of the narrowed type
\* within the field's own constraints, and both outcomes are generated from
\* some state of the random source.
C9_OptionalBothWays ==
    \A f \in TopFields :
        SoleOptional(f) /\ ByTypeOnly(f) =>
            /\ Called =>
                   LET v == ValueAt(LastData, f.name)[1]
                   IN  v = NoneV \/ OfNarrowedType(v, ActualTypeArgs(f.annotation)[1], FieldCons(f))
            /\ \E r \in RndStates :
                   AssembleField(f, <<>>, Fresh(r, fakerShared)).data[1].val = NoneV
            /\ \E r \in RndStates :
                   AssembleField(f, <<>>, Fresh(r, fakerShared)).data[1].val # NoneV

\* `score: int | None` with ge = 5, le = 7 has been given 7
C9_Witness == Called /\ ValueAt(LastData, "score") = Some(IntV(7))

-----------------------------------------------------------------------------
(* C10 *)

\* C10: a field of an unsupported type never makes the generation fail: the
\* instance is returned with all of its keys, that field holding a
\* placeholder string that embeds the name of the type.
C10_UnsupportedPlaceholder ==
    Called =>
        /\ Keys(LastData) = FieldNames(model_class)
        /\ \A f \in TopFields :
               f.annotation.k = "other" /\ ByTypeOnly(f) =>
                   ValueAt(LastData, f.name) = Some(TextV("unsupported_type_" \o f.annotation.name))

\* the two unsupported fields of OptionalTypesModel hold their placeholders
C10_Witness ==
    /\ Called
    /\ ValueAt(LastData, "amount") = Some(TextV("unsupported_type_<class 'decimal.Decimal'>"))
    /\ ValueAt(LastData, "members") = Some(TextV("unsupported_type_set[int]"))

-----------------------------------------------------------------------------
(* C11 *)

\* the request just answered
Did(op) == Serving /\ reply.op = op
Succeeded == reply.status_code \in {HTTP_200_OK, HTTP_201_CREATED, HTTP_204_NO_CONTENT}

\* the schema declares an integer id, required or not, nullable or not
DeclaresIntegerId(model) ==
    HasField(model, "id") /\ TypeForComparison(FieldOf(model, "id").annotation) = IntT

\* the integer ids the items carry
IntegerIds(items) ==
    {DictGet(items[i], "id").n : i \in {j \in 1 .. Len(items) : DictGet(items[j], "id").t = "int"}}

\* one more than the greatest id in the list, 1 for an empty list
NextIdAsClaimed(items) ==
    IF Len(items) = 0 \/ IntegerIds(items) = {} THEN 1 ELSE SetMax(IntegerIds(items)) + 1

\* C11: a create whose payload omits id, under a schema that declares an
\* integer id, stores and returns the item with id = (the greatest id in the
\* store) + 1, or 1 when the store is empty.
C11_CreateAssignsNextId ==
    Did("create_item") /\ DeclaresIntegerId(model_class) /\ ~HasKey(reply.sent, "id") =>
        /\ reply.status_code = HTTP_201_CREATED
        /\ Len(reply.body) = 1
        /\ DictGet(reply.body[1], "id") = IntV(NextIdAsClaimed(reply.before))
        /\ store = Append(reply.before, reply.body[1])

-----------------------------------------------------------------------------
(* C12 *)

\* the position the latest update or delete resolved its identifier to
Resolved == IndexToChange(model_class, reply.before, reply.item_id_str)[1]
ResolvedByMatch == MatchedById(reply.before, IdFieldName(model_class), reply.item_id_str) # {}
IdentifierOf(item) == DictGet(item, IdFieldName(model_class)[1])

UpdatedIdentified ==
    Did("update_item") /\ reply.status_code = HTTP_200_OK /\ IdFieldName(model_class) # None

-----------------------------------------------------------------------------
(* C13 *)

Deleted == Did("delete_item") /\ reply.status_code = HTTP_204_NO_CONTENT

\* what a GET of the identifier would answer now
GetNow(item_id_str) == get_item(model_class, store, item_id_str)

\* C13 as claimed: after a successful DELETE of X, a GET of X, no mutation
\* in between, answers not-found, for every store and every X.
C13_DeleteThenGetNotFoundAsClaimed == Deleted => GetNow(reply.item_id_str) = None

\* an item left in the list carries the identifier
CarriedBy(items, item_id_str) ==
    /\ IdFieldName(model_class) # None
    /\ \E i \in 1 .. Len(items) :
           IdentifierOf(items[i]) # NoneV /\ PyStr(IdentifierOf(items[i])) = item_id_str

\* the identifier reads as a position of the list
PositionIn(items, item_id_str) ==
    PyInt(item_id_str) # None /\ PyInt(item_id_str)[1] \in 0 .. Len(items) - 1

\* C13 amended: a successful DELETE of X removes the one item X resolved to,
\* and a GET of X right after it answers not-found exactly when no remaining
\* item carries X as its identifier and X does not read as a position of the
\* remaining list.
C13_DeleteThenGetNotFound ==
    Deleted =>
        /\ store = [i \in 1 .. Len(reply.before) - 1 |->
                        IF i < Resolved THEN reply.before[i] ELSE reply.before[i + 1]]
        /\ GetNow(reply.item_id_str) = None <=>
               /\ ~CarriedBy(store, reply.item_id_str)
               /\ ~PositionIn(store, reply.item_id_str)

\* an item was deleted by its identifier from a list of several, and a GET of
\* the identifier finds nothing
C13_Witness ==
    /\ Deleted
    /\ ResolvedByMatch
    /\ Resolved = 1
    /\ Len(store) >= 1
    /\ GetNow(reply.item_id_str) = None

-----------------------------------------------------------------------------
(* C14 *)

\* a create has returned an item that carries an identifier
CreatedIdentified ==
    /\ Did("create_item")
    /\ reply.status_code = HTTP_201_CREATED
    /\ IdFieldName(model_class) # None
    /\ IdentifierOf(reply.body[1]) # NoneV

CreatedIdentifier == PyStr(IdentifierOf(reply.body[1]))

\* C14 as claimed: after a create returns an item with identifier I, a GET of
\* I, no mutation in between, returns that created item, for every prior store.
C14_CreateThenGetAsClaimed == CreatedIdentified => GetNow(CreatedIdentifier) = reply.body

\* the first item of the list that carries the identifier
FirstCarrier(items, item_id_str) ==
    items[CHOOSE i \in 1 .. Len(items) :
              /\ IdentifierOf(items[i]) # NoneV
              /\ PyStr(IdentifierOf(items[i])) = item_id_str
              /\ \A j \in 1 .. i - 1 :
                     IdentifierOf(items[j]) = NoneV \/ PyStr(IdentifierOf(items[j])) # item_id_str]

\* C14 amended: a create appends the item it returns; when the item carries
\* a non-null identifier I that no item already in the store carries (always
\* so for an auto-assigned id), a GET of I right after returns the created
\* item; when an earlier item carries I, the GET returns the first such item.
C14_CreateThenGet ==
    CreatedIdentified =>
        /\ store = Append(reply.before, reply.body[1])
        /\ ~HasKey(reply.sent, "id") /\ IdFieldName(model_class) = Some("id")
               => ~CarriedBy(reply.before, CreatedIdentifier)
        /\ GetNow(CreatedIdentifier) =
               IF CarriedBy(reply.before, CreatedIdentifier)
               THEN <<FirstCarrier(reply.before, CreatedIdentifier)>>
               ELSE reply.body

\* an item created without id into a list that held an item was assigned an
\* id, and a GET of that id returns it
C14_Witness ==
    /\ CreatedIdentified
    /\ ~HasKey(reply.sent, "id")
    /\ IdFieldName(model_class) = Some("id")
    /\ Len(reply.before) >= 1
    /\ GetNow(CreatedIdentifier) = reply.body

-----------------------------------------------------------------------------
(* C15 *)

Carriers(items, item_id_str) ==
    {i \in 1 .. Len(items) :
        IdentifierOf(items[i]) # NoneV /\ PyStr(IdentifierOf(items[i])) = item_id_str}

\* the position the claim resolves an identifier to, None when it resolves to
\* nothing: the first item that carries it in its identifier field, else the
\* position it reads as
ClaimedIndex(items, item_id_str) ==
    IF IdFieldName(model_class) # None /\ Carriers(items, item_id_str) # {}
    THEN Some(First(Carriers(items, item_id_str)))
    ELSE IF PositionIn(items, item_id_str)
    THEN Some(PyInt(item_id_str)[1] + 1)
    ELSE None

Without(items, index) ==
    [i \in 1 .. Len(items) - 1 |-> IF i < index THEN items[i] ELSE items[i + 1]]

\* the answer and the store the claim's resolution leads to
GetAsClaimed(index) ==
    /\ reply.body = IF index = None THEN <<>> ELSE <<reply.before[index[1]]>>
    /\ reply.status_code = IF index = None THEN HTTP_404_NOT_FOUND ELSE HTTP_200_OK
UpdateAsClaimed(index) ==
    IF index = None
    THEN reply.status_code = HTTP_404_NOT_FOUND /\ store = reply.before
    ELSE /\ reply.status_code = HTTP_200_OK
         /\ store = [reply.before EXCEPT ![index[1]] = reply.body[1]]
DeleteAsClaimed(index) ==
    IF index = None
    THEN reply.status_code = HTTP_404_NOT_FOUND /\ store = reply.before
    ELSE reply.status_code = HTTP_204_NO_CONTENT /\ store = Without(reply.before, index[1])

\* C15: get, update and delete resolve an identifier to the first item whose
\* identifier field (id, or uuid), in textual form, equals it, whenever the
\* schema declares the field and such an item exists; only otherwise is the
\* identifier read as a zero-based position.
C15_ResolveByIdentifierFirst ==
    /\ Did("get_item") => GetAsClaimed(ClaimedIndex(reply.before, reply.item_id_str))
    /\ Did("update_item") /\ reply.status_code # HTTP_422_UNPROCESSABLE =>
           UpdateAsClaimed(ClaimedIndex(reply.before, reply.item_id_str))
    /\ Did("delete_item") => DeleteAsClaimed(ClaimedIndex(reply.before, reply.item_id_str))

-----------------------------------------------------------------------------
(* C16 *)

\* a get, an update with a valid body, or a delete has been answered
ItemRequested ==
    \/ Did("get_item")
    \/ Did("delete_item")
    \/ Did("update_item") /\ reply.status_code # HTTP_422_UNPROCESSABLE

\* C16: a get, update or delete whose identifier is carried by no item in its
\* identifier field and is no valid index (not a number, negative, or not
\* below the number of items) answers not-found and leaves the store as it was.
C16_UnresolvedNotFound ==
    /\ ItemRequested
    /\ ~CarriedBy(reply.before, reply.item_id_str)
    /\ ~PositionIn(reply.before, reply.item_id_str)
    => reply.status_code = HTTP_404_NOT_FOUND /\ store = reply.before

-----------------------------------------------------------------------------
(* C17 *)

Listed == Did("get_all_items")

\* the query string names a boolean
DenotesTrue(text) == Lower(text) \in {Text_true, <<"1">>, Text_yes, Text_on}
DenotesFalse(text) == Lower(text) \in {Text_false, <<"0">>, Text_no, <<"o", "f", "f">>}

IsBoolField(model, name) ==
    HasField(model, name) /\ FieldOf(model, name).annotation = BoolT

\* the items of the list whose field holds the boolean, in the list's order
HoldingBool(items, name, b) == SelectSeq(items, LAMBDA item : DictGet(item, name) = BoolV(b))

\* what the list answers to one parameter alone
AnsweredAlone(param) == get_all_items(model_class, store, <<param>>)
InAnswer(item, answer) == \E i \in 1 .. Len(answer) : answer[i] = item

\* C17: a list request filtered on a boolean field returns exactly the stored
\* items whose field equals the boolean the query string denotes (true, 1,
\* yes, on or false, 0, no, off, in any case), in store order; with several
\* filters an item is returned exactly when it matches every one of them.
C17_BoolFilter ==
    Listed =>
        /\ Len(reply.sent) = 1 /\ IsBoolField(model_class, reply.sent[1].k) =>
               /\ DenotesTrue(reply.sent[1].val) =>
                      reply.body = HoldingBool(store, reply.sent[1].k, 1)
               /\ DenotesFalse(reply.sent[1].val) =>
                      reply.body = HoldingBool(store, reply.sent[1].k, 0)
        /\ Len(reply.sent) > 1 =>
               reply.body = SelectSeq(store, LAMBDA item :
                                \A i \in 1 .. Len(reply.sent) :
                                    InAnswer(item, AnsweredAlone(reply.sent[i])))
        /\ store = reply.before
        /\ reply.status_code = HTTP_200_OK

\* is_active=TRUE has returned the first of two items, the second being inactive
C17_Witness ==
    /\ Listed
    /\ reply.sent = <<Param("is_active", Text_TRUE)>>
    /\ Len(store) = 2
    /\ DictGet(store[2], "is_active") = BoolV(0)
    /\ reply.body = <<store[1]>>

-----------------------------------------------------------------------------
(* C18 *)

\* a list request with one filter, on a declared field
FilteredOn == Listed /\ Len(reply.sent) = 1 /\ HasField(model_class, reply.sent[1].k)
FilterName == reply.sent[1].k
FilterText == reply.sent[1].val

NullValued(items, name) == SelectSeq(items, LAMBDA item : DictGet(item, name) = NoneV)

\* C18 as claimed: a query value of `null` or the empty string matches
\* exactly the items whose value for the field is null.
C18_NullFilterAsClaimed ==
    FilteredOn /\ FilterText \in {Text_null, <<>>} =>
        reply.body = NullValued(store, FilterName)

\* the field's values are compared as text
TextCompared(model, name) ==
    TypeForComparison(FieldOf(model, name).annotation).k \notin {"bool", "int", "float"}

\* the items whose value is not null and, the field being compared as text,
\* reads as the query value
ReadingAs(model, items, name, text) ==
    SelectSeq(items, LAMBDA item :
        /\ DictGet(item, name) # NoneV
        /\ TextCompared(model, name)
        /\ PyStr(DictGet(item, name)) = text)

\* C18 amended: a query value of `none`, in any case, or the empty string
\* matches every item whose value for the field is null, and no other item
\* unless the field is compared as text and the item's text is the query
\* value itself; the word `null` matches no null value.
C18_NullFilter ==
    FilteredOn =>
        /\ Lower(FilterText) = Text_none \/ FilterText = <<>> =>
               reply.body = SelectSeq(store, LAMBDA item :
                                \/ InAnswer(item, NullValued(store, FilterName))
                                \/ InAnswer(item, ReadingAs(model_class, store, FilterName, FilterText)))
        /\ FilterText = Text_null =>
               reply.body = ReadingAs(model_class, store, FilterName, FilterText)

\* rating=None has returned the one item of two whose rating is null
C18_Witness ==
    /\ FilteredOn
    /\ reply.sent = <<Param("rating", Text_None)>>
    /\ Len(store) = 2
    /\ Len(reply.body) = 1
    /\ DictGet(reply.body[1], "rating") = NoneV

-----------------------------------------------------------------------------
(* C19 *)

\* the query without the parameters that name no field of the schema
NamingFields(model, query_params) ==
    SelectSeq(query_params, LAMBDA param : HasField(model, param.k))

\* C19: query parameters whose names are not fields of the schema never
\* change the result of a list request and never cause an error: the answer
\* is the answer to the same request without them.
C19_UnknownParamsIgnored ==
    Listed =>
        /\ reply.status_code = HTTP_200_OK
        /\ reply.body = get_all_items(model_class, store, NamingFields(model_class, reply.sent))

\* page=2 was sent ahead of two filters, and one item of two was returned
C19_Witness ==
    /\ Listed
    /\ Len(reply.sent) = 3
    /\ ~HasField(model_class, reply.sent[1].k)
    /\ Len(store) = 2
    /\ Len(reply.body) = 1

-----------------------------------------------------------------------------
(* C20 *)

\* a length is declared, and the declared lengths admit a string
DeclaresLengths(c) ==
    /\ c.min_length # None \/ c.max_length # None
    /\ c.min_length # None /\ c.max_length # None => c.min_length[1] <= c.max_length[1]

\* C20: a str field whose name is that of a category and which declares
\* min_length and/or max_length is given a string of at least min_length and
\* at most max_length characters.
C20_ByNameLength ==
    /\ Called
    /\ TheField.name \in FAKER_FIELD_NAME_MAP
    /\ TheField.annotation = StrT
    /\ DeclaresLengths(FieldCons(TheField))
    => /\ TheValue.t = "str"
       /\ FieldCons(TheField).min_length # None => TheValue.n >= FieldCons(TheField).min_length[1]
       /\ FieldCons(TheField).max_length # None => TheValue.n <= FieldCons(TheField).max_length[1]

-----------------------------------------------------------------------------
(* C21 *)

\* the latest create stored an item whose id the handler assigned
AssignedId ==
    /\ Did("create_item")
    /\ reply.status_code = HTTP_201_CREATED
    /\ AssignsId(model_class, reply.sent)

OmitsId(request) == request.op = "create_item" /\ ~HasKey(request.sent, "id")

\* C21: with requests in flight together, every create, update and delete
\* takes effect as a whole on the list the previous handler left: a create
\* appends its item and an id it assigns is the id of no other stored item, an
\* update replaces one item, a delete removes one item, and nothing else of
\* the list is lost.
C21_AtomicMutations ==
    /\ Did("create_item") /\ reply.status_code = HTTP_201_CREATED =>
           store = Append(reply.before, reply.body[1])
    /\ AssignedId =>
           /\ DictGet(reply.body[1], "id").t = "int"
           /\ Carriers(store, PyStr(DictGet(reply.body[1], "id"))) = {Len(store)}
    /\ Did("update_item") /\ reply.status_code = HTTP_200_OK =>
           \E k \in 1 .. Len(reply.before) : store = [reply.before EXCEPT ![k] = reply.body[1]]
    /\ Did("delete_item") /\ reply.status_code = HTTP_204_NO_CONTENT =>
           \E k \in 1 .. Len(reply.before) : store = Without(reply.before, k)

\* of two creates without id in flight together one has been handled and
\* assigned an id, the other is still to run
C21_Witness ==
    /\ AssignedId
    /\ Len(inflight) >= 1
    /\ OmitsId(inflight[1])
    /\ AssignsId(model_class, inflight[1].sent)

-----------------------------------------------------------------------------
(* C22 *)

\* C22: two providers made by get_faker_instance with the same seed, each
\* passed as faker_instance_override at the same time of day, yield equal
\* instances, the fields drawn as integers, floats, booleans, optional nulls
\* and list counts included.
C22_ProviderReproducible ==
    /\ prev # None
    /\ prev[1].seed = last[1].seed
    /\ prev[1].at = last[1].at
    => prev[1].data = last[1].data

-----------------------------------------------------------------------------
(* C23 *)

\* the state of `random` a call starts from
StartOf(seed) == IF seed = None THEN rnd ELSE SeedState(seed[1])

\* the state of `random` after the null draw of an Optional field
AfterNullDraw(f, r0) == IF IsOptional(f.annotation) THEN Advance(r0) ELSE r0

\* the state of `random` after the example draw of a field with examples
AfterExampleDraw(f, r1) == IF Len(f.examples) > 0 THEN Advance(r1) ELSE r1

IsExampleOf(f, val) == \E i \in 1 .. Len(f.examples) : f.examples[i] = val

\* the decision for field f, random starting at r0, that gave val
DecidedInOrder(f, r0, seed, val) ==
    LET nulled == IsOptional(f.annotation) /\ RandomLess(r0, 1, 2)
        r1 == AfterNullDraw(f, r0)
        exampled == ~nulled /\ Len(f.examples) > 0 /\ RandomLess(r1, 3, 10)
        r2 == AfterExampleDraw(f, r1)
        named == ~nulled /\ ~exampled /\ f.name \in FAKER_FIELD_NAME_MAP
    IN  /\ nulled => val = NoneV /\ rnd' = Advance(r0)
        /\ exampled => /\ IsExampleOf(f, val)
                       /\ rnd' = Advance(r2)
                       /\ seed = None => fakerShared' = fakerShared
        /\ named => val.t = "str" /\ rnd' = r2
        /\ ~nulled /\ ~exampled /\ ~named => val.t = "int" /\ val.n >= 0

GeneratedInOrder ==
    last' # last =>
        DecidedInOrder(model_class.fields[1], StartOf(last'[1].seed), last'[1].seed,
                       last'[1].data[1].val)

\* C23: the assembler decides a field in a fixed order.  An Optional field
\* that draws null is recorded as null and no example draw is made; otherwise
\* a chosen example is recorded, whatever the name and the type; otherwise a
\* name of FAKER_FIELD_NAME_MAP decides; only otherwise the type does.
C23_DecisionOrder == [][GeneratedInOrder]_vars

\* an Optional field with examples and the name of a category was given one
\* of its examples
C23_Witness ==
    /\ Called
    /\ IsOptional(TheField.annotation)
    /\ TheField.name \in FAKER_FIELD_NAME_MAP
    /\ IsExampleOf(TheField, TheValue)

-----------------------------------------------------------------------------
(* C24 *)

\* the Optional type below a list or dict annotation
NestedOptional(annotation) ==
    IF annotation.k = "list" THEN annotation.args[1] ELSE annotation.args[2]

\* the values generated below a list or dict value
NestedValues(val) ==
    IF val.t = "list"
    THEN {val.items[i] : i \in 1 .. Len(val.items)}
    ELSE {val.items[i].val : i \in 1 .. Len(val.items)}

\* C24: a value generated for an Optional type that is the item type of a
\* list or the value type of a dict is null or a value of the narrowed inner
\* type.
C24_NestedOptional ==
    Called =>
        \A v \in NestedValues(TheValue) :
            \/ v = NoneV
            \/ v.t = TagOf(ActualTypeArgs(NestedOptional(TheField.annotation))[1])

-----------------------------------------------------------------------------
(* C25 *)

\* the high bound of the declared bounds cut to the default range 0..1000
NarrowedHigh(c) == IF HasHigh(c) THEN Min(High(c), 1000) ELSE 1000

OverConstrained(c) == EffLow(c) > NarrowedHigh(c)

\* C25: an int field whose narrowed low bound is above its high bound is
\* given exactly the low bound; an int field with a multiple_of that has no
\* multiple in the effective range is given a value of the effective range.
C25_OverConstrainedInt ==
    Called /\ TheField.annotation.k = "int" =>
        LET c == FieldCons(TheField)
        IN  /\ TheValue.t = "int"
            /\ OverConstrained(c) => TheValue.n = EffLow(c)
            /\ c.multiple_of # None /\ ~HasMultipleIn(c.multiple_of[1], EffLow(c), EffHigh(c))
                   => TheValue.n \in EffLow(c) .. EffHigh(c)

\* gt = 1000, le = 7 and multiple_of = 3: the range collapses onto 1001, which
\* is no multiple of 3, and 1001 is generated
C25_Witness ==
    /\ Called
    /\ FieldCons(TheField) = Cons(Some(1000), None, None, Some(7), Some(3))
    /\ TheValue = IntV(1001)

-----------------------------------------------------------------------------
(* C26 *)

\* both lengths are declared, the minimum above the maximum
LengthsCrossed(c) ==
    /\ c.min_length # None
    /\ c.max_length # None
    /\ c.min_length[1] > c.max_length[1]

\* C26: a field that declares min_length > max_length is generated without
\* an error, the range collapsed to one bound: a str generated by type has
\* exactly max_length characters, a list has exactly min_length items.
C26_CrossedLengths ==
    Called /\ LengthsCrossed(FieldCons(TheField)) =>
        /\ TheField.annotation.k = "str" =>
               TheValue.t = "str" /\ TheValue.n = FieldCons(TheField).max_length[1]
        /\ TheField.annotation.k = "list" =>
               TheValue.t = "list" /\ Len(TheValue.items) = FieldCons(TheField).min_length[1]

\* min_length = 5 and max_length = 4 has given a str of 4 characters
C26_Witness ==
    /\ Called
    /\ TheField.annotation.k = "str"
    /\ FieldCons(TheField) = Lens(Some(5), Some(4))
    /\ TheValue.n = 4

-----------------------------------------------------------------------------
(* C27 *)

\* the position get_item answers from, None when it answers not-found
GetPosition(model, items, item_id_str) ==
    IF FoundById(items, IdFieldName(model), item_id_str) # {}
    THEN Some(First(FoundById(items, IdFieldName(model), item_id_str)))
    ELSE ByIndex(items, PyInt(item_id_str))

\* C27: for every store and every path identifier, get, update and delete
\* resolve the identifier to the same position, or all three to not-found;
\* items whose identifier field is null and the identifier None included.
C27_SameResolution ==
    Serving =>
        \A item_id_str \in ItemIds(store) \cup {Text_None} :
            GetPosition(model_class, store, item_id_str)
                = IndexToChange(model_class, store, item_id_str)

-----------------------------------------------------------------------------
(* C28 *)

\* C28: the server started on items that carry pairwise distinct integer ids,
\* none null, creates without an id, updates and deletes never leave two
\* stored items with the same integer id.
C28_IdsStayDistinct == Serving => IntegerIdsDistinct(store)

-----------------------------------------------------------------------------
(* C29 *)

\* C29: a store operation changes only what it addresses.  A successful
\* create appends one item after the items that were there; a successful
\* update changes no item but the one at the resolved position; a successful
\* delete removes that item alone; the other items keep their values and
\* their order.  A list and a get leave the store as it was.
C29_Frame ==
    /\ Did("create_item") /\ reply.status_code = HTTP_201_CREATED =>
           /\ Len(store) = Len(reply.before) + 1
           /\ SubSeq(store, 1, Len(reply.before)) = reply.before
    /\ Did("update_item") /\ reply.status_code = HTTP_200_OK =>
           /\ Len(store) = Len(reply.before)
           /\ \A i \in 1 .. Len(store) : i # Resolved => store[i] = reply.before[i]
    /\ Deleted => store = Without(reply.before, Resolved)
    /\ Did("get_all_items") \/ Did("get_item") => store = reply.before

\* the first of two items has been replaced by an update, the second is as
\* it was
C29_Witness ==
    /\ Did("update_item")
    /\ reply.status_code = HTTP_200_OK
    /\ Len(store) = 2
    /\ Resolved = 1
    /\ store[1] # reply.before[1]
    /\ store[2] = reply.before[2]

-----------------------------------------------------------------------------
(* C30 *)

\* the generate command has run with a seed and a count above 1
SeededBatch == Len(fake_data_list) > 1 /\ last[1].seed # None

\* the server has been started with a seed and a count above 1
SeededStart(args) ==
    /\ Did("run_server")
    /\ args.seed # None
    /\ args.count > 1
    /\ Len(store) = args.count

\* `random` and Faker seeded once, then one stream for all the instances
OneStream(args, now) ==
    data_instances(model_class, args.count, <<>>,
                   GenState(SeedState(args.seed[1]), SeedState(args.seed[1]),
                            Some(SeedState(args.seed[1])), 0, now)).data

\* C30: the generate command with a seed and a count above 1 seeds the random
\* sources before every instance, so the instances of the batch are all
\* equal; the serve command seeds them once and its instances follow one
\* another in one stream.
C30_BatchAndStream ==
    /\ SeededBatch =>
           \A i, j \in 1 .. Len(fake_data_list) : fake_data_list[i] = fake_data_list[j]
    /\ \A args \in ServerArgs :
           SeededStart(args) => \E now \in 0 .. clock : store = OneStream(args, now)

====
